---- MODULE Spec2Model ----
(***************************************************************************)
(* Pricing engines of estimation-calc: the interior engine                 *)
(* (lib/calculations/interior.ts) and the exterior engine                  *)
(* (lib/calc/exterior.ts), over the rate table (lib/calc/rates.ts).        *)
(*                                                                         *)
(* Numbers.  A JavaScript number is modelled as a fixed-point integer      *)
(* counting units of 1/SCALE.  Every rate of the table has at most two     *)
(* decimals and every input the model draws is a multiple of one half, so  *)
(* each product the engines form (rate x input, whole amount x rate) is a  *)
(* whole number of 1/SCALE units and the arithmetic below is exact.        *)
(* Binary floating-point representation error is not modelled.             *)
(***************************************************************************)
EXTENDS Integers, Sequences, FiniteSets

VARIABLES input, result

vars == <<input, result>>

(***************************************************************************)
(* Fixed-point numbers                                                     *)
(***************************************************************************)
SCALE == 200

\* the decimal n/d, e.g. Dec(188, 100) is 1.88
Dec(n, d) == (n * SCALE) \div d

\* the whole number n
Whole(n) == n * SCALE

\* k halves, e.g. Half(3) is 1.5
Half(k) == k * (SCALE \div 2)

\* a * b for fixed-point a, b
Mul(a, b) == (a * b) \div SCALE

IsWhole(x) == x % SCALE = 0

Max(a, b) == IF a >= b THEN a ELSE b

Min(a, b) == IF a <= b THEN a ELSE b

\* Math.floor
Floor(x) == (x \div SCALE) * SCALE

\* an optional number is a list of at most one number: Undefined when the
\* field is not set, Some(v) when it holds v
Undefined == <<>>

Some(v) == <<v>>

\* result before the call has returned, and after it has returned value v
NoResult == [returned |-> FALSE]

Returned(v) == [returned |-> TRUE, value |-> v]

(***************************************************************************)
(* Utility functions (interior.ts)                                         *)
(***************************************************************************)
\* Math.round: the nearest whole number, a tie going up (towards +infinity)
roundCurrency(amount) == ((2 * amount + SCALE) \div (2 * SCALE)) * SCALE

clampNonNeg(value) == Max(Whole(0), value)

\* sum of the cost fields of a list of line items (Array.reduce)
RECURSIVE SumCost(_)
SumCost(items) ==
    IF items = <<>> THEN Whole(0)
    ELSE items[1].cost + SumCost(Tail(items))

(***************************************************************************)
(* Rate table (rates.ts)                                                   *)
(***************************************************************************)
WALL_MULT_GENERAL == Dec(28, 10)
WALL_MULT_KITCHEN == Dec(31, 10)
WALL_MULT_BATHROOM == Dec(41, 10)
VAULTED_ADD == Dec(5, 10)
TRIM_SF_MULT == Dec(5, 10)
BASEBOARD_LF_WITH_WALLS == Dec(188, 100)
BASEBOARD_LF_ONLY == Dec(56, 10)
STAINED_CONVERSION_MULT == Whole(3)
CEILING_MULT_WITH_WALLS == Dec(6, 10)
CEILING_MULT_ONLY == Dec(17, 10)
DOOR_PER_SIDE == Whole(63)
CLOSET_STANDARD == Whole(120)
CLOSET_WALKIN == Whole(185)
WINDOW_BASE == Whole(70)
ACCENT_WALL_IN_ROOM == Whole(150)
ACCENT_WALL_STANDALONE == Whole(185)
CROWN_MOLDING_PER_LF == Dec(15, 10)
SCAFFOLDING_FEE == Whole(650)
SETUP_THRESHOLD == Whole(1566)
SETUP_MAX_FEE == Whole(300)
ADDITIONAL_COLOR_FEE == Whole(134)
MIN_ROOM_CHARGE == Whole(275)
WALLPAPER_PER_WALL_SF == Whole(7)
CUSTOMER_SUPPLIES_PAINT_DEDUCT == Dec(15, 100)
PREMIUM_PAINT_UPCHARGE == Whole(200)

HEIGHT_MULT_ONE_STORY == Dec(125, 100)
HEIGHT_MULT_ONE_HALF_STORY == Dec(15, 10)
HEIGHT_MULT_TWO_STORY == Dec(175, 100)
HEIGHT_MULT_THREE_STORY == Dec(225, 100)
DIFFICULTY_NON_FLAT_GROUND == Dec(25, 100)
DIFFICULTY_ROOF_ACCESS == Dec(25, 100)
FLAKING_LIGHT == Whole(0)
FLAKING_MEDIUM == Dec(3, 10)
FLAKING_HEAVY_MIN == Dec(5, 10)
FLAKING_HEAVY_MAX == Whole(1)
BASE_FEE == Whole(1750)
COAT_MULTIPLIER == Dec(16, 10)
ADD_ONS_SHUTTER == Whole(75)
ADD_ONS_FRONT_DOOR == Whole(250)
ADD_ONS_GARAGE_1_CAR == Whole(200)
ADD_ONS_GARAGE_2_CAR == Whole(400)
PARTIAL_JOB_MULTIPLIER == Dec(6, 10)

(***************************************************************************)
(* Interior engine (interior.ts): the sub-calculations                     *)
(***************************************************************************)
RoomTypes == {"general", "kitchen", "bathroom"}

TrimModes == {"none", "trim_package_sf", "baseboards_lf"}

getWallMultiplier(roomType) ==
    CASE roomType = "kitchen" -> WALL_MULT_KITCHEN
      [] roomType = "bathroom" -> WALL_MULT_BATHROOM
      [] OTHER -> WALL_MULT_GENERAL

\* calculateRoomWalls with the vaulted adjustment priced after the minimum
\* clamp instead of added to the multiplier before it
calculateRoomWalls_VaultedAfterMinimum(floorSqft, roomType, vaulted, paintWalls) ==
    IF ~paintWalls \/ floorSqft <= 0
    THEN [cost |-> Whole(0), multiplier |-> Whole(0), minimumApplied |-> FALSE]
    ELSE LET sqft == clampNonNeg(floorSqft)
             multiplier == getWallMultiplier(roomType)
             cost == Mul(sqft, multiplier)
             minimumApplied == cost < MIN_ROOM_CHARGE
             extra == IF vaulted THEN Mul(sqft, VAULTED_ADD) ELSE Whole(0)
         IN  [cost |-> roundCurrency(Max(cost, MIN_ROOM_CHARGE) + extra),
              multiplier |-> multiplier + (IF vaulted THEN VAULTED_ADD ELSE Whole(0)),
              minimumApplied |-> minimumApplied]

calculateRoomWalls(floorSqft, roomType, vaulted, paintWalls) ==
    IF ~paintWalls \/ floorSqft <= 0
    THEN [cost |-> Whole(0), multiplier |-> Whole(0), minimumApplied |-> FALSE]
    ELSE LET sqft == clampNonNeg(floorSqft)
             multiplier == getWallMultiplier(roomType)
                           + (IF vaulted THEN VAULTED_ADD ELSE Whole(0))
             cost == Mul(sqft, multiplier)
             minimumApplied == cost < MIN_ROOM_CHARGE
         IN  [cost |-> roundCurrency(Max(cost, MIN_ROOM_CHARGE)),
              multiplier |-> multiplier,
              minimumApplied |-> minimumApplied]

calculateCeiling(floorSqft, paintCeiling, wallsBeingPainted) ==
    IF ~paintCeiling \/ floorSqft <= 0
    THEN [cost |-> Whole(0), multiplier |-> Whole(0)]
    ELSE LET sqft == clampNonNeg(floorSqft)
             multiplier == IF wallsBeingPainted THEN CEILING_MULT_WITH_WALLS
                           ELSE CEILING_MULT_ONLY
         IN  [cost |-> roundCurrency(Mul(sqft, multiplier)), multiplier |-> multiplier]

\* calculateTrim rounding the mode cost before the stained conversion
calculateTrim_RoundBeforeConversion(floorSqft, trimMode, baseboardLF, wallsBeingPainted, stainedConversion) ==
    IF trimMode = "none" THEN [cost |-> Whole(0)]
    ELSE LET modeCost ==
                 CASE trimMode = "trim_package_sf" ->
                          Mul(clampNonNeg(floorSqft), TRIM_SF_MULT)
                   [] trimMode = "baseboards_lf" ->
                          Mul(clampNonNeg(baseboardLF),
                              IF wallsBeingPainted THEN BASEBOARD_LF_WITH_WALLS
                              ELSE BASEBOARD_LF_ONLY)
                   [] OTHER -> Whole(0)
             cost == IF stainedConversion /\ modeCost > 0
                     THEN Mul(roundCurrency(modeCost), STAINED_CONVERSION_MULT)
                     ELSE roundCurrency(modeCost)
         IN  [cost |-> cost]

calculateTrim(floorSqft, trimMode, baseboardLF, wallsBeingPainted, stainedConversion) ==
    IF trimMode = "none" THEN [cost |-> Whole(0)]
    ELSE LET modeCost ==
                 CASE trimMode = "trim_package_sf" ->
                          Mul(clampNonNeg(floorSqft), TRIM_SF_MULT)
                   [] trimMode = "baseboards_lf" ->
                          Mul(clampNonNeg(baseboardLF),
                              IF wallsBeingPainted THEN BASEBOARD_LF_WITH_WALLS
                              ELSE BASEBOARD_LF_ONLY)
                   [] OTHER -> Whole(0)
             cost == IF stainedConversion /\ modeCost > 0
                     THEN Mul(modeCost, STAINED_CONVERSION_MULT)
                     ELSE modeCost
         IN  [cost |-> roundCurrency(cost)]

calculateCrownMolding(linearFeet) ==
    LET lf == clampNonNeg(linearFeet)
    IN  IF lf <= 0 THEN [cost |-> Whole(0)]
        ELSE [cost |-> roundCurrency(Mul(lf, CROWN_MOLDING_PER_LF))]

\* calculateDoors rounding the number of sides to the nearest whole number
calculateDoors_RoundsSides(sides) ==
    LET count == clampNonNeg(roundCurrency(sides))
    IN  IF count <= 0 THEN [cost |-> Whole(0)]
        ELSE [cost |-> roundCurrency(Mul(count, DOOR_PER_SIDE))]

calculateDoors(sides) ==
    LET count == clampNonNeg(Floor(sides))
    IN  IF count <= 0 THEN [cost |-> Whole(0)]
        ELSE [cost |-> roundCurrency(Mul(count, DOOR_PER_SIDE))]

\* clampNonNeg(window.sizeFactor) || 1: a missing factor gives NaN and a zero
\* or negative one gives 0, both falsy, so both are replaced by 1
WindowFactor(window) ==
    LET clamped == IF window.sizeFactor = Undefined THEN Whole(0)
                   ELSE clampNonNeg(window.sizeFactor[1])
    IN  IF clamped = Whole(0) THEN Whole(1) ELSE clamped

RECURSIVE WindowsTotal_RoundedPerWindow(_)
\* the loop of calculateWindows rounding the cost of each window
WindowsTotal_RoundedPerWindow(windows) ==
    IF windows = <<>> THEN Whole(0)
    ELSE roundCurrency(Mul(WINDOW_BASE, WindowFactor(windows[1])))
         + WindowsTotal_RoundedPerWindow(Tail(windows))

RECURSIVE WindowsTotal(_)
WindowsTotal(windows) ==
    IF windows = <<>> THEN Whole(0)
    ELSE Mul(WINDOW_BASE, WindowFactor(windows[1])) + WindowsTotal(Tail(windows))

calculateWindows(windows) ==
    IF Len(windows) = 0
    THEN [cost |-> Whole(0), standardCount |-> 0, largeCount |-> 0]
    ELSE LET large == {i \in 1..Len(windows) : WindowFactor(windows[i]) >= Whole(2)}
         IN  [cost |-> roundCurrency(WindowsTotal(windows)),
              standardCount |-> Len(windows) - Cardinality(large),
              largeCount |-> Cardinality(large)]

calculateClosets(standard, walkIn) ==
    LET stdCount == clampNonNeg(Floor(standard))
        walkInCount == clampNonNeg(Floor(walkIn))
    IN  IF stdCount <= 0 /\ walkInCount <= 0 THEN [cost |-> Whole(0)]
        ELSE [cost |-> roundCurrency(Mul(stdCount, CLOSET_STANDARD)
                                     + Mul(walkInCount, CLOSET_WALKIN))]

calculateAccentWalls(inRoom, standalone) ==
    LET inRoomCount == clampNonNeg(Floor(inRoom))
        standaloneCount == clampNonNeg(Floor(standalone))
    IN  IF inRoomCount <= 0 /\ standaloneCount <= 0 THEN [cost |-> Whole(0)]
        ELSE [cost |-> roundCurrency(Mul(inRoomCount, ACCENT_WALL_IN_ROOM)
                                     + Mul(standaloneCount, ACCENT_WALL_STANDALONE))]

calculateScaffolding(needsScaffolding) ==
    IF needsScaffolding THEN [cost |-> SCAFFOLDING_FEE] ELSE [cost |-> Whole(0)]

\* calculateAdditionalColors billing every color, the first one included
calculateAdditionalColors_NoFreeColor(numColors) ==
    LET colors == clampNonNeg(Floor(numColors))
        extra == Max(Whole(0), colors)
    IN  IF extra <= 0 THEN [cost |-> Whole(0), extraColors |-> Whole(0)]
        ELSE [cost |-> roundCurrency(Mul(extra, ADDITIONAL_COLOR_FEE)),
              extraColors |-> extra]

calculateAdditionalColors(numColors) ==
    LET colors == clampNonNeg(Floor(numColors))
        extra == Max(Whole(0), colors - Whole(1))
    IN  IF extra <= 0 THEN [cost |-> Whole(0), extraColors |-> Whole(0)]
        ELSE [cost |-> roundCurrency(Mul(extra, ADDITIONAL_COLOR_FEE)),
              extraColors |-> extra]

calculateWallpaperRemoval(wallSqft) ==
    LET sqft == clampNonNeg(wallSqft)
    IN  IF sqft <= 0 THEN [cost |-> Whole(0)]
        ELSE [cost |-> roundCurrency(Mul(sqft, WALLPAPER_PER_WALL_SF))]

\* calculateSetupFee without the cap: the fee is the whole difference
calculateSetupFee_NoCap(subtotal) ==
    LET sub == clampNonNeg(subtotal)
    IN  IF sub >= SETUP_THRESHOLD THEN [fee |-> Whole(0)]
        ELSE [fee |-> roundCurrency(SETUP_THRESHOLD - sub)]

\* calculateSetupFee taking the minimum with the subtotal, not the difference
calculateSetupFee_MinWithSubtotal(subtotal) ==
    LET sub == clampNonNeg(subtotal)
    IN  IF sub >= SETUP_THRESHOLD THEN [fee |-> Whole(0)]
        ELSE [fee |-> roundCurrency(Min(SETUP_MAX_FEE, sub))]

calculateSetupFee(subtotal) ==
    LET sub == clampNonNeg(subtotal)
    IN  IF sub >= SETUP_THRESHOLD THEN [fee |-> Whole(0)]
        ELSE LET difference == SETUP_THRESHOLD - sub
                 fee == Min(SETUP_MAX_FEE, difference)
             IN  [fee |-> roundCurrency(fee)]

(***************************************************************************)
(* Interior engine: calculateRoom and calculateInteriorEstimate.           *)
(* A line item keeps category, name, cost, roomId and roomName; the basis  *)
(* string is display text that no cost depends on and is left out.         *)
(***************************************************************************)
Null == "null"

RoomItem(room, category, name, cost) ==
    [category |-> category, name |-> name, cost |-> cost,
     roomId |-> room.id, roomName |-> room.name]

JobItem(category, name, cost) ==
    [category |-> category, name |-> name, cost |-> cost, roomId |-> Null]

\* lineItems.push(...) without the test of the cost
PushIfPositive_Always(item) == <<item>>

\* if (x.cost > 0) lineItems.push(...)
PushIfPositive(item) == IF item.cost > 0 THEN <<item>> ELSE <<>>

\* calculateRoom leaving wallsBeingPainted of the ceiling at its default, true
calculateRoom_CeilingWithWallsAlways(room) ==
    LET walls == calculateRoomWalls(room.floorSqft, room.roomType,
                                    room.vaulted, room.paintWalls)
        ceiling == calculateCeiling(room.floorSqft, room.paintCeiling, TRUE)
        trim == calculateTrim(room.floorSqft, room.trimMode, room.baseboardLF,
                              room.paintWalls, room.stainedTrimConversion)
        crown == calculateCrownMolding(room.crownMoldingLF)
        doors == calculateDoors(room.doorSides)
        closets == calculateClosets(room.closetsStandard, room.closetsWalkIn)
        windows == calculateWindows(room.windows)
        accentWalls == calculateAccentWalls(room.accentWallsInRoom,
                                            room.accentWallsStandalone)
        scaffolding == calculateScaffolding(room.needsScaffolding)
        wallpaper == calculateWallpaperRemoval(room.wallpaperRemovalSqft)
        lineItems ==
            PushIfPositive(RoomItem(room, "walls", "Walls", walls.cost))
            \o PushIfPositive(RoomItem(room, "ceiling",
                   IF room.paintWalls THEN "Ceiling (with walls)" ELSE "Ceiling only",
                   ceiling.cost))
            \o PushIfPositive(RoomItem(room, "trim",
                   IF room.trimMode = "trim_package_sf" THEN "Trim package"
                   ELSE "Baseboards",
                   trim.cost))
            \o PushIfPositive(RoomItem(room, "crown_molding", "Crown molding", crown.cost))
            \o PushIfPositive(RoomItem(room, "doors", "Doors", doors.cost))
            \o PushIfPositive(RoomItem(room, "closets", "Closets", closets.cost))
            \o PushIfPositive(RoomItem(room, "windows", "Windows", windows.cost))
            \o PushIfPositive(RoomItem(room, "accent_walls", "Accent walls",
                                       accentWalls.cost))
            \o PushIfPositive(RoomItem(room, "scaffolding", "Scaffolding",
                                       scaffolding.cost))
            \o PushIfPositive(RoomItem(room, "wallpaper_removal", "Wallpaper removal",
                                       wallpaper.cost))
    IN  [roomId |-> room.id,
         roomName |-> room.name,
         lineItems |-> lineItems,
         roomTotal |-> SumCost(lineItems)]

calculateRoom(room) ==
    LET walls == calculateRoomWalls(room.floorSqft, room.roomType,
                                    room.vaulted, room.paintWalls)
        ceiling == calculateCeiling(room.floorSqft, room.paintCeiling, room.paintWalls)
        trim == calculateTrim(room.floorSqft, room.trimMode, room.baseboardLF,
                              room.paintWalls, room.stainedTrimConversion)
        crown == calculateCrownMolding(room.crownMoldingLF)
        doors == calculateDoors(room.doorSides)
        closets == calculateClosets(room.closetsStandard, room.closetsWalkIn)
        windows == calculateWindows(room.windows)
        accentWalls == calculateAccentWalls(room.accentWallsInRoom,
                                            room.accentWallsStandalone)
        scaffolding == calculateScaffolding(room.needsScaffolding)
        wallpaper == calculateWallpaperRemoval(room.wallpaperRemovalSqft)
        lineItems ==
            PushIfPositive(RoomItem(room, "walls", "Walls", walls.cost))
            \o PushIfPositive(RoomItem(room, "ceiling",
                   IF room.paintWalls THEN "Ceiling (with walls)" ELSE "Ceiling only",
                   ceiling.cost))
            \o PushIfPositive(RoomItem(room, "trim",
                   IF room.trimMode = "trim_package_sf" THEN "Trim package"
                   ELSE "Baseboards",
                   trim.cost))
            \o PushIfPositive(RoomItem(room, "crown_molding", "Crown molding", crown.cost))
            \o PushIfPositive(RoomItem(room, "doors", "Doors", doors.cost))
            \o PushIfPositive(RoomItem(room, "closets", "Closets", closets.cost))
            \o PushIfPositive(RoomItem(room, "windows", "Windows", windows.cost))
            \o PushIfPositive(RoomItem(room, "accent_walls", "Accent walls",
                                       accentWalls.cost))
            \o PushIfPositive(RoomItem(room, "scaffolding", "Scaffolding",
                                       scaffolding.cost))
            \o PushIfPositive(RoomItem(room, "wallpaper_removal", "Wallpaper removal",
                                       wallpaper.cost))
    IN  [roomId |-> room.id,
         roomName |-> room.name,
         lineItems |-> lineItems,
         roomTotal |-> SumCost(lineItems)]

RECURSIVE RoomLineItems_SkipsLastRoom(_)
\* the loop over input.rooms stopping one room short
RoomLineItems_SkipsLastRoom(roomResults) ==
    IF Len(roomResults) <= 1 THEN <<>>
    ELSE roomResults[1].lineItems \o RoomLineItems_SkipsLastRoom(Tail(roomResults))

\* allLineItems after the loop over input.rooms
RECURSIVE RoomLineItems(_)
RoomLineItems(roomResults) ==
    IF roomResults = <<>> THEN <<>>
    ELSE roomResults[1].lineItems \o RoomLineItems(Tail(roomResults))

LARGE_ROOM_SQFT == Whole(5000)

HIGH_DOOR_SIDES == Whole(20)

\* the warnings of one room with the thresholds themselves warned about
RoomWarnings_AtThreshold(room) ==
    (IF room.floorSqft >= LARGE_ROOM_SQFT
     THEN <<[text |-> "Unusually large room", roomName |-> room.name,
             value |-> room.floorSqft]>>
     ELSE <<>>)
    \o (IF room.doorSides >= HIGH_DOOR_SIDES
        THEN <<[text |-> "High door count", roomName |-> room.name,
                value |-> room.doorSides]>>
        ELSE <<>>)

\* the warnings of one room, in the order the loop pushes them
RoomWarnings(room) ==
    (IF room.floorSqft > LARGE_ROOM_SQFT
     THEN <<[text |-> "Unusually large room", roomName |-> room.name,
             value |-> room.floorSqft]>>
     ELSE <<>>)
    \o (IF room.doorSides > HIGH_DOOR_SIDES
        THEN <<[text |-> "High door count", roomName |-> room.name,
                value |-> room.doorSides]>>
        ELSE <<>>)

RECURSIVE AllRoomWarnings(_)
AllRoomWarnings(rooms) ==
    IF rooms = <<>> THEN <<>>
    ELSE RoomWarnings(rooms[1]) \o AllRoomWarnings(Tail(rooms))

\* The job-level blocks of calculateInteriorEstimate.  Each reads and updates
\* the two locals the function carries along, allLineItems and subtotal,
\* held here in the record acc.
AddAdditionalColors(job, acc) ==
    LET additionalColors == calculateAdditionalColors(job.numWallColors)
    IN  IF additionalColors.cost > 0
        THEN [allLineItems |-> Append(acc.allLineItems,
                                      JobItem("additional_colors", "Additional wall colors",
                                              additionalColors.cost)),
              subtotal |-> acc.subtotal + additionalColors.cost]
        ELSE acc

DeductCustomerPaint(job, acc) ==
    IF job.customerSuppliesPaint
    THEN LET deduction == roundCurrency(Mul(acc.subtotal, CUSTOMER_SUPPLIES_PAINT_DEDUCT))
         IN  [allLineItems |-> Append(acc.allLineItems,
                                      JobItem("paint_options", "Customer supplied paint",
                                              0 - deduction)),
              subtotal |-> acc.subtotal - deduction]
    ELSE acc

AddPremiumPaint(job, acc) ==
    IF job.premiumPaint
    THEN [allLineItems |-> Append(acc.allLineItems,
                                  JobItem("paint_options", "Premium paint upgrade",
                                          PREMIUM_PAINT_UPCHARGE)),
          subtotal |-> acc.subtotal + PREMIUM_PAINT_UPCHARGE]
    ELSE acc

\* the setup-fee block without the push of its line item
AddSetupFee_NoLineItem(acc) ==
    LET setupFeeResult == calculateSetupFee(acc.subtotal)
    IN  [allLineItems |-> acc.allLineItems,
         subtotal |-> acc.subtotal,
         setupFee |-> setupFeeResult.fee]

\* the setup-fee block: the fee is taken on the subtotal as it stands, and
\* its line item is pushed only when the fee is positive
AddSetupFee(acc) ==
    LET setupFeeResult == calculateSetupFee(acc.subtotal)
    IN  [allLineItems |-> IF setupFeeResult.fee > 0
                          THEN Append(acc.allLineItems,
                                      JobItem("setup_fee", "Setup/cleanup fee",
                                              setupFeeResult.fee))
                          ELSE acc.allLineItems,
         subtotal |-> acc.subtotal,
         setupFee |-> setupFeeResult.fee]

\* calculateInteriorEstimate with the premium upcharge added before the
\* customer-supplied-paint deduction is taken
calculateInteriorEstimate_PremiumBeforeDeduction(job) ==
    LET roomResults == [i \in 1..Len(job.rooms) |-> calculateRoom(job.rooms[i])]
        roomItems == RoomLineItems(roomResults)
        afterRooms == [allLineItems |-> roomItems, subtotal |-> SumCost(roomItems)]
        afterColors == AddAdditionalColors(job, afterRooms)
        afterPremium == AddPremiumPaint(job, afterColors)
        afterCustomerPaint == DeductCustomerPaint(job, afterPremium)
        final == AddSetupFee(afterCustomerPaint)
        warnings == (IF Len(job.rooms) = 0
                     THEN <<[text |-> "No rooms added to estimate"]>> ELSE <<>>)
                    \o AllRoomWarnings(job.rooms)
    IN  [rooms |-> roomResults,
         lineItems |-> final.allLineItems,
         subtotal |-> final.subtotal,
         setupFee |-> final.setupFee,
         total |-> final.subtotal + final.setupFee,
         roomCount |-> Len(job.rooms),
         warnings |-> warnings]

\* calculateInteriorEstimate with the setup fee taken before the premium
\* upcharge is added
calculateInteriorEstimate_SetupFeeBeforePremium(job) ==
    LET roomResults == [i \in 1..Len(job.rooms) |-> calculateRoom(job.rooms[i])]
        roomItems == RoomLineItems(roomResults)
        afterRooms == [allLineItems |-> roomItems, subtotal |-> SumCost(roomItems)]
        afterColors == AddAdditionalColors(job, afterRooms)
        afterCustomerPaint == DeductCustomerPaint(job, afterColors)
        fee == calculateSetupFee(afterCustomerPaint.subtotal).fee
        afterPremium == AddPremiumPaint(job, afterCustomerPaint)
        warnings == (IF Len(job.rooms) = 0
                     THEN <<[text |-> "No rooms added to estimate"]>> ELSE <<>>)
                    \o AllRoomWarnings(job.rooms)
    IN  [rooms |-> roomResults,
         lineItems |-> IF fee > 0
                       THEN Append(afterPremium.allLineItems,
                                   JobItem("setup_fee", "Setup/cleanup fee", fee))
                       ELSE afterPremium.allLineItems,
         subtotal |-> afterPremium.subtotal,
         setupFee |-> fee,
         total |-> afterPremium.subtotal + fee,
         roomCount |-> Len(job.rooms),
         warnings |-> warnings]

\* calculateInteriorEstimate without the check for an empty room list
calculateInteriorEstimate_NoEmptyWarning(job) ==
    LET roomResults == [i \in 1..Len(job.rooms) |-> calculateRoom(job.rooms[i])]
        roomItems == RoomLineItems(roomResults)
        afterRooms == [allLineItems |-> roomItems, subtotal |-> SumCost(roomItems)]
        afterColors == AddAdditionalColors(job, afterRooms)
        afterCustomerPaint == DeductCustomerPaint(job, afterColors)
        afterPremium == AddPremiumPaint(job, afterCustomerPaint)
        final == AddSetupFee(afterPremium)
    IN  [rooms |-> roomResults,
         lineItems |-> final.allLineItems,
         subtotal |-> final.subtotal,
         setupFee |-> final.setupFee,
         total |-> final.subtotal + final.setupFee,
         roomCount |-> Len(job.rooms),
         warnings |-> AllRoomWarnings(job.rooms)]

calculateInteriorEstimate(job) ==
    LET roomResults == [i \in 1..Len(job.rooms) |-> calculateRoom(job.rooms[i])]
        roomItems == RoomLineItems(roomResults)
        afterRooms == [allLineItems |-> roomItems, subtotal |-> SumCost(roomItems)]
        afterColors == AddAdditionalColors(job, afterRooms)
        afterCustomerPaint == DeductCustomerPaint(job, afterColors)
        afterPremium == AddPremiumPaint(job, afterCustomerPaint)
        final == AddSetupFee(afterPremium)
        warnings == (IF Len(job.rooms) = 0
                     THEN <<[text |-> "No rooms added to estimate"]>> ELSE <<>>)
                    \o AllRoomWarnings(job.rooms)
    IN  [rooms |-> roomResults,
         lineItems |-> final.allLineItems,
         subtotal |-> final.subtotal,
         setupFee |-> final.setupFee,
         total |-> final.subtotal + final.setupFee,
         roomCount |-> Len(job.rooms),
         warnings |-> warnings]

calculateJobTotal(subtotal) == subtotal + calculateSetupFee(subtotal).fee

(***************************************************************************)
(* Exterior engine (exterior.ts)                                           *)
(***************************************************************************)
StoryTypes == {"one_story", "one_half_story", "two_story", "three_story"}

FlakingSeverities == {"light", "medium", "heavy"}

ExteriorScopes == {"full", "trim_only", "siding_only"}

getHeightMultiplier(storyType) ==
    CASE storyType = "one_story" -> HEIGHT_MULT_ONE_STORY
      [] storyType = "one_half_story" -> HEIGHT_MULT_ONE_HALF_STORY
      [] storyType = "two_story" -> HEIGHT_MULT_TWO_STORY
      [] storyType = "three_story" -> HEIGHT_MULT_THREE_STORY
      [] OTHER -> HEIGHT_MULT_ONE_STORY

\* the for loop of calculateDifficultyAdjustment: counts over the side list
RECURSIVE CountSides(_, _)
CountSides(sideDifficulties, flag) ==
    IF sideDifficulties = <<>> THEN 0
    ELSE (IF sideDifficulties[1][flag] THEN 1 ELSE 0)
         + CountSides(Tail(sideDifficulties), flag)

\* calculateDifficultyAdjustment charging a side once, whichever flags it has
calculateDifficultyAdjustment_OncePerSide(sideDifficulties) ==
    LET nonFlatCount == CountSides(sideDifficulties, "nonFlatGround")
        roofAccessCount == CountSides(sideDifficulties, "roofAccess")
        flagged == {i \in 1..Len(sideDifficulties) :
                       sideDifficulties[i].nonFlatGround \/ sideDifficulties[i].roofAccess}
    IN  [adjustment |-> Cardinality(flagged) * DIFFICULTY_NON_FLAT_GROUND,
         nonFlatCount |-> nonFlatCount,
         roofAccessCount |-> roofAccessCount]

calculateDifficultyAdjustment(sideDifficulties) ==
    LET nonFlatCount == CountSides(sideDifficulties, "nonFlatGround")
        roofAccessCount == CountSides(sideDifficulties, "roofAccess")
    IN  [adjustment |-> nonFlatCount * DIFFICULTY_NON_FLAT_GROUND
                        + roofAccessCount * DIFFICULTY_ROOF_ACCESS,
         nonFlatCount |-> nonFlatCount,
         roofAccessCount |-> roofAccessCount]

\* getFlakingAdjustment that clamps the override from below only
getFlakingAdjustment_NoUpperClamp(severity, heavyAdjustment) ==
    CASE severity = "light" -> FLAKING_LIGHT
      [] severity = "medium" -> FLAKING_MEDIUM
      [] severity = "heavy" ->
            LET adj == IF heavyAdjustment = Undefined THEN FLAKING_HEAVY_MIN
                       ELSE heavyAdjustment[1]
            IN  Max(FLAKING_HEAVY_MIN, adj)
      [] OTHER -> FLAKING_LIGHT

getFlakingAdjustment(severity, heavyAdjustment) ==
    CASE severity = "light" -> FLAKING_LIGHT
      [] severity = "medium" -> FLAKING_MEDIUM
      [] severity = "heavy" ->
            LET adj == IF heavyAdjustment = Undefined THEN FLAKING_HEAVY_MIN
                       ELSE heavyAdjustment[1]
            IN  Min(FLAKING_HEAVY_MAX, Max(FLAKING_HEAVY_MIN, adj))
      [] OTHER -> FLAKING_LIGHT

calculateAddOns(job) ==
    LET shuttersCost == Mul(job.shutterCount, ADD_ONS_SHUTTER)
        frontDoorCost == IF job.paintFrontDoor THEN ADD_ONS_FRONT_DOOR ELSE Whole(0)
        garageDoorsCost == Mul(job.garageDoors.oneCarDoors, ADD_ONS_GARAGE_1_CAR)
                           + Mul(job.garageDoors.twoCarDoors, ADD_ONS_GARAGE_2_CAR)
    IN  [shuttersCost |-> shuttersCost,
         frontDoorCost |-> frontDoorCost,
         garageDoorsCost |-> garageDoorsCost,
         total |-> shuttersCost + frontDoorCost + garageDoorsCost]

getScopeMultiplier(scope) ==
    CASE scope = "full" -> Whole(1)
      [] scope \in {"trim_only", "siding_only"} -> PARTIAL_JOB_MULTIPLIER
      [] OTHER -> Whole(1)

\* one entry of the line-item list; name and basis are display strings that
\* no cost depends on and are left out
Item(category, cost) == [category |-> category, cost |-> cost]

\* buildLineItems with the scope-adjustment item pushed for every scope
buildLineItems_ScopeItemAlways(job, breakdown) ==
    LET heightCost == roundCurrency(Mul(breakdown.heightMultiplier, job.houseSqft))
    IN  <<Item("base", BASE_FEE), Item("height", heightCost)>>
        \o (IF breakdown.difficultyAdjustment > 0
            THEN <<Item("difficulty",
                        roundCurrency(Mul(breakdown.difficultyAdjustment, job.houseSqft)))>>
            ELSE <<>>)
        \o (IF breakdown.flakingAdjustment > 0
            THEN <<Item("flaking",
                        roundCurrency(Mul(breakdown.flakingAdjustment, job.houseSqft)))>>
            ELSE <<>>)
        \o <<Item("coats",
                  roundCurrency(breakdown.afterCoatMultiplier - breakdown.baseCalculation))>>
        \o (IF breakdown.shuttersCost > 0
            THEN <<Item("shutters", breakdown.shuttersCost)>> ELSE <<>>)
        \o (IF breakdown.frontDoorCost > 0
            THEN <<Item("front_door", breakdown.frontDoorCost)>> ELSE <<>>)
        \o (IF breakdown.garageDoorsCost > 0
            THEN <<Item("garage", breakdown.garageDoorsCost)>> ELSE <<>>)
        \o <<Item("scope",
                  roundCurrency(breakdown.finalTotal - breakdown.fullExteriorTotal))>>

buildLineItems(job, breakdown) ==
    LET heightCost == roundCurrency(Mul(breakdown.heightMultiplier, job.houseSqft))
    IN  <<Item("base", BASE_FEE), Item("height", heightCost)>>
        \o (IF breakdown.difficultyAdjustment > 0
            THEN <<Item("difficulty",
                        roundCurrency(Mul(breakdown.difficultyAdjustment, job.houseSqft)))>>
            ELSE <<>>)
        \o (IF breakdown.flakingAdjustment > 0
            THEN <<Item("flaking",
                        roundCurrency(Mul(breakdown.flakingAdjustment, job.houseSqft)))>>
            ELSE <<>>)
        \o <<Item("coats",
                  roundCurrency(breakdown.afterCoatMultiplier - breakdown.baseCalculation))>>
        \o (IF breakdown.shuttersCost > 0
            THEN <<Item("shutters", breakdown.shuttersCost)>> ELSE <<>>)
        \o (IF breakdown.frontDoorCost > 0
            THEN <<Item("front_door", breakdown.frontDoorCost)>> ELSE <<>>)
        \o (IF breakdown.garageDoorsCost > 0
            THEN <<Item("garage", breakdown.garageDoorsCost)>> ELSE <<>>)
        \o (IF breakdown.scopeMultiplier < Whole(1)
            THEN <<Item("scope",
                        roundCurrency(breakdown.finalTotal - breakdown.fullExteriorTotal))>>
            ELSE <<>>)

\* calculateExteriorEstimate with the rounding deferred to the final total
calculateExteriorEstimate_RoundAtEnd(job, now) ==
    LET heightMultiplier == getHeightMultiplier(job.storyType)
        difficulty == calculateDifficultyAdjustment(job.sideDifficulties)
        flakingAdjustment ==
            getFlakingAdjustment(job.flakingSeverity, job.heavyFlakingAdjustment)
        totalMultiplier == heightMultiplier + difficulty.adjustment + flakingAdjustment
        baseCalculation == Mul(totalMultiplier, job.houseSqft) + BASE_FEE
        afterCoatMultiplier == Mul(baseCalculation, COAT_MULTIPLIER)
        addOns == calculateAddOns(job)
        fullExteriorTotal == afterCoatMultiplier + addOns.total
        scopeMultiplier == getScopeMultiplier(job.scope)
        finalTotal == roundCurrency(Mul(fullExteriorTotal, scopeMultiplier))
        breakdown ==
            [heightMultiplier |-> heightMultiplier,
             difficultyAdjustment |-> difficulty.adjustment,
             flakingAdjustment |-> flakingAdjustment,
             totalMultiplier |-> totalMultiplier,
             baseCalculation |-> baseCalculation,
             afterCoatMultiplier |-> afterCoatMultiplier,
             shuttersCost |-> addOns.shuttersCost,
             frontDoorCost |-> addOns.frontDoorCost,
             garageDoorsCost |-> addOns.garageDoorsCost,
             totalAddOns |-> addOns.total,
             fullExteriorTotal |-> fullExteriorTotal,
             scopeMultiplier |-> scopeMultiplier,
             finalTotal |-> finalTotal]
    IN  [input |-> job,
         breakdown |-> breakdown,
         lineItems |-> buildLineItems(job, breakdown),
         total |-> finalTotal,
         calculatedAt |-> now]

\* calculateExteriorEstimate with a total that depends on the time of the call
calculateExteriorEstimate_PricedByTheClock(job, now) ==
    LET heightMultiplier == getHeightMultiplier(job.storyType)
        difficulty == calculateDifficultyAdjustment(job.sideDifficulties)
        flakingAdjustment ==
            getFlakingAdjustment(job.flakingSeverity, job.heavyFlakingAdjustment)
        totalMultiplier == heightMultiplier + difficulty.adjustment + flakingAdjustment
        baseCalculation == roundCurrency(Mul(totalMultiplier, job.houseSqft) + BASE_FEE)
        afterCoatMultiplier == roundCurrency(Mul(baseCalculation, COAT_MULTIPLIER))
        addOns == calculateAddOns(job)
        fullExteriorTotal == roundCurrency(afterCoatMultiplier + addOns.total)
        scopeMultiplier == getScopeMultiplier(job.scope)
        finalTotal == roundCurrency(Mul(fullExteriorTotal, scopeMultiplier)) + Whole(now)
        breakdown ==
            [heightMultiplier |-> heightMultiplier,
             difficultyAdjustment |-> difficulty.adjustment,
             flakingAdjustment |-> flakingAdjustment,
             totalMultiplier |-> totalMultiplier,
             baseCalculation |-> baseCalculation,
             afterCoatMultiplier |-> afterCoatMultiplier,
             shuttersCost |-> addOns.shuttersCost,
             frontDoorCost |-> addOns.frontDoorCost,
             garageDoorsCost |-> addOns.garageDoorsCost,
             totalAddOns |-> addOns.total,
             fullExteriorTotal |-> fullExteriorTotal,
             scopeMultiplier |-> scopeMultiplier,
             finalTotal |-> finalTotal]
    IN  [input |-> job,
         breakdown |-> breakdown,
         lineItems |-> buildLineItems(job, breakdown),
         total |-> finalTotal,
         calculatedAt |-> now]

calculateExteriorEstimate(job, now) ==
    LET heightMultiplier == getHeightMultiplier(job.storyType)
        difficulty == calculateDifficultyAdjustment(job.sideDifficulties)
        flakingAdjustment ==
            getFlakingAdjustment(job.flakingSeverity, job.heavyFlakingAdjustment)
        totalMultiplier == heightMultiplier + difficulty.adjustment + flakingAdjustment
        baseCalculation == roundCurrency(Mul(totalMultiplier, job.houseSqft) + BASE_FEE)
        afterCoatMultiplier == roundCurrency(Mul(baseCalculation, COAT_MULTIPLIER))
        addOns == calculateAddOns(job)
        fullExteriorTotal == roundCurrency(afterCoatMultiplier + addOns.total)
        scopeMultiplier == getScopeMultiplier(job.scope)
        finalTotal == roundCurrency(Mul(fullExteriorTotal, scopeMultiplier))
        breakdown ==
            [heightMultiplier |-> heightMultiplier,
             difficultyAdjustment |-> difficulty.adjustment,
             flakingAdjustment |-> flakingAdjustment,
             totalMultiplier |-> totalMultiplier,
             baseCalculation |-> baseCalculation,
             afterCoatMultiplier |-> afterCoatMultiplier,
             shuttersCost |-> addOns.shuttersCost,
             frontDoorCost |-> addOns.frontDoorCost,
             garageDoorsCost |-> addOns.garageDoorsCost,
             totalAddOns |-> addOns.total,
             fullExteriorTotal |-> fullExteriorTotal,
             scopeMultiplier |-> scopeMultiplier,
             finalTotal |-> finalTotal]
    IN  [input |-> job,
         breakdown |-> breakdown,
         lineItems |-> buildLineItems(job, breakdown),
         total |-> finalTotal,
         calculatedAt |-> now]

(***************************************************************************)
(* Exterior inputs: the default job with at most MaxChangedFields of its   *)
(* fields set to another value.                                            *)
(***************************************************************************)
MaxChangedFields == 3
MaxClock == 2
MaxSqftHalves == 3
MaxCountHalves == 2

\* the readings of the clock (new Date()) at the time of a call
Times == 1..MaxClock

SideIds == <<"front", "back", "left", "right">>

createDefaultSideDifficulties ==
    [i \in 1..4 |-> [side |-> SideIds[i], nonFlatGround |-> FALSE, roofAccess |-> FALSE]]

createDefaultExteriorJob ==
    [houseSqft |-> Whole(0),
     storyType |-> "one_story",
     sideDifficulties |-> createDefaultSideDifficulties,
     flakingSeverity |-> "light",
     heavyFlakingAdjustment |-> Undefined,
     scope |-> "full",
     shutterCount |-> Whole(0),
     paintFrontDoor |-> FALSE,
     garageDoors |-> [oneCarDoors |-> Whole(0), twoCarDoors |-> Whole(0)]]

\* house areas: negative, zero, fractional and small ones, and two of house size
HouseSqfts == {Half(k) : k \in -1..MaxSqftHalves} \cup {Whole(1001), Whole(2000)}

\* counts as a caller may pass them: negative, fractional, whole
Counts == {Half(k) : k \in -1..MaxCountHalves} \cup {Whole(-40)}

HeavyAdjustments == {Undefined, Some(Dec(3, 10)), Some(Dec(75, 100)), Some(Dec(15, 10))}

\* the jobs that differ from job in one field
ExteriorEdits(job) ==
    {[job EXCEPT !.houseSqft = v] : v \in HouseSqfts}
    \cup {[job EXCEPT !.storyType = v] : v \in StoryTypes \cup {"unknown"}}
    \cup {[job EXCEPT !.sideDifficulties[i].nonFlatGround = TRUE] : i \in 1..4}
    \cup {[job EXCEPT !.sideDifficulties[i].roofAccess = TRUE] : i \in 1..4}
    \cup {[job EXCEPT !.flakingSeverity = v] : v \in FlakingSeverities}
    \cup {[job EXCEPT !.heavyFlakingAdjustment = v] : v \in HeavyAdjustments}
    \cup {[job EXCEPT !.scope = v] : v \in ExteriorScopes \cup {"unknown"}}
    \cup {[job EXCEPT !.shutterCount = v] : v \in Counts}
    \cup {[job EXCEPT !.paintFrontDoor = TRUE]}
    \cup {[job EXCEPT !.garageDoors.oneCarDoors = v] : v \in Counts}
    \cup {[job EXCEPT !.garageDoors.twoCarDoors = v] : v \in Counts}

\* the number of fields in which job differs from the default job
ChangedExteriorFields(job) ==
    LET d == createDefaultExteriorJob
        One(changed) == IF changed THEN 1 ELSE 0
    IN  One(job.houseSqft # d.houseSqft)
        + One(job.storyType # d.storyType)
        + CountSides(job.sideDifficulties, "nonFlatGround")
        + CountSides(job.sideDifficulties, "roofAccess")
        + One(job.flakingSeverity # d.flakingSeverity)
        + One(job.heavyFlakingAdjustment # d.heavyFlakingAdjustment)
        + One(job.scope # d.scope)
        + One(job.shutterCount # d.shutterCount)
        + One(job.paintFrontDoor # d.paintFrontDoor)
        + One(job.garageDoors.oneCarDoors # d.garageDoors.oneCarDoors)
        + One(job.garageDoors.twoCarDoors # d.garageDoors.twoCarDoors)

InitExterior ==
    /\ input = createDefaultExteriorJob
    /\ result = NoResult

\* the caller fills in one more field of the job it is going to price
EditExteriorJob ==
    /\ result = NoResult
    /\ ChangedExteriorFields(input) < MaxChangedFields
    /\ \E job \in ExteriorEdits(input) : input' = job
    /\ UNCHANGED result

CalculateExterior ==
    /\ result = NoResult
    /\ \E now \in Times : result' = Returned(calculateExteriorEstimate(input, now))
    /\ UNCHANGED input

NextExterior == EditExteriorJob \/ CalculateExterior

SpecExterior == InitExterior /\ [][NextExterior]_vars
(***************************************************************************)
(* Interior inputs: the empty job, with either paint option on or off, and *)
(* at most MaxChangedFields changes, a change being a room added with its  *)
(* defaults, a window added to a room, one field of a room set to another  *)
(* value, or another number of wall colors.                                *)
(***************************************************************************)
MaxRooms == 2
MaxWindows == 2

RoomIds == <<"room-1", "room-2", "room-3", "room-4">>

RoomNames == <<"Room 1", "Room 2", "Room 3", "Room 4">>

\* createRoom(name) for the n-th room of a job: DEFAULT_ROOM with a fresh id
createRoom(n) ==
    [id |-> RoomIds[n],
     name |-> RoomNames[n],
     floorSqft |-> Whole(0),
     roomType |-> "general",
     paintWalls |-> TRUE,
     paintCeiling |-> FALSE,
     vaulted |-> FALSE,
     trimMode |-> "none",
     baseboardLF |-> Whole(0),
     stainedTrimConversion |-> FALSE,
     crownMoldingLF |-> Whole(0),
     doorSides |-> Whole(0),
     closetsStandard |-> Whole(0),
     closetsWalkIn |-> Whole(0),
     windows |-> <<>>,
     accentWallsInRoom |-> Whole(0),
     accentWallsStandalone |-> Whole(0),
     needsScaffolding |-> FALSE,
     wallpaperRemovalSqft |-> Whole(0)]

\* DEFAULT_ESTIMATE_STATE, the fields the engine reads
createDefaultInteriorJob ==
    [rooms |-> <<>>,
     numWallColors |-> Whole(1),
     customerSuppliesPaint |-> FALSE,
     premiumPaint |-> FALSE]

\* floor areas: negative, fractional and small, mid-sized, large, at the
\* warning threshold and over it
RoomSqfts == {Half(-1), Half(1), Half(301), Whole(500), Whole(5000), Whole(6000)}

\* linear feet and wallpaper areas
Lengths == {Half(-1), Half(3), Whole(50)}

\* counts of closets and accent walls: fractional and whole
RoomCounts == {Half(1), Whole(2)}

\* door sides: negative, fractional, whole, at the warning threshold and over it
DoorSides == {Half(-1), Half(3), Whole(2), Whole(20), Whole(25)}

SizeFactors == {Undefined, Some(Whole(-1)), Some(Whole(0)), Some(Half(3)), Some(Whole(2))}

WallColors == {Whole(0), Whole(2), Half(5), Whole(3)}

\* the rooms that differ from room in one field, or have one more window
RoomEdits(room) ==
    {[room EXCEPT !.floorSqft = v] : v \in RoomSqfts}
    \cup {[room EXCEPT !.roomType = v] : v \in RoomTypes}
    \cup {[room EXCEPT !.paintWalls = FALSE], [room EXCEPT !.paintCeiling = TRUE],
          [room EXCEPT !.vaulted = TRUE], [room EXCEPT !.stainedTrimConversion = TRUE],
          [room EXCEPT !.needsScaffolding = TRUE]}
    \cup {[room EXCEPT !.trimMode = v] : v \in TrimModes}
    \cup {[room EXCEPT !.baseboardLF = v] : v \in Lengths}
    \cup {[room EXCEPT !.crownMoldingLF = v] : v \in Lengths}
    \cup {[room EXCEPT !.wallpaperRemovalSqft = v] : v \in Lengths}
    \cup {[room EXCEPT !.doorSides = v] : v \in DoorSides}
    \cup {[room EXCEPT !.closetsStandard = v] : v \in RoomCounts}
    \cup {[room EXCEPT !.closetsWalkIn = v] : v \in RoomCounts}
    \cup {[room EXCEPT !.accentWallsInRoom = v] : v \in RoomCounts}
    \cup {[room EXCEPT !.accentWallsStandalone = v] : v \in RoomCounts}
    \cup (IF Len(room.windows) < MaxWindows
          THEN {[room EXCEPT !.windows = Append(@, [sizeFactor |-> f])] : f \in SizeFactors}
          ELSE {})

\* the jobs one change away from job
InteriorEdits(job) ==
    (IF Len(job.rooms) < MaxRooms
     THEN {[job EXCEPT !.rooms = Append(@, createRoom(Len(job.rooms) + 1))]}
     ELSE {})
    \cup UNION {{[job EXCEPT !.rooms[i] = r] : r \in RoomEdits(job.rooms[i])} :
                i \in 1..Len(job.rooms)}
    \cup {[job EXCEPT !.numWallColors = v] : v \in WallColors}

\* the number of changes that separate room from the default room
ChangedRoomFields(room) ==
    LET d == createRoom(1)
        One(changed) == IF changed THEN 1 ELSE 0
    IN  One(room.floorSqft # d.floorSqft)
        + One(room.roomType # d.roomType)
        + One(room.paintWalls # d.paintWalls)
        + One(room.paintCeiling # d.paintCeiling)
        + One(room.vaulted # d.vaulted)
        + One(room.trimMode # d.trimMode)
        + One(room.baseboardLF # d.baseboardLF)
        + One(room.stainedTrimConversion # d.stainedTrimConversion)
        + One(room.crownMoldingLF # d.crownMoldingLF)
        + One(room.doorSides # d.doorSides)
        + One(room.closetsStandard # d.closetsStandard)
        + One(room.closetsWalkIn # d.closetsWalkIn)
        + Len(room.windows)
        + One(room.accentWallsInRoom # d.accentWallsInRoom)
        + One(room.accentWallsStandalone # d.accentWallsStandalone)
        + One(room.needsScaffolding # d.needsScaffolding)
        + One(room.wallpaperRemovalSqft # d.wallpaperRemovalSqft)

RECURSIVE ChangedRooms(_)
ChangedRooms(rooms) ==
    IF rooms = <<>> THEN 0
    ELSE 1 + ChangedRoomFields(rooms[1]) + ChangedRooms(Tail(rooms))

ChangedInteriorFields(job) ==
    ChangedRooms(job.rooms)
    + (IF job.numWallColors # createDefaultInteriorJob.numWallColors THEN 1 ELSE 0)

\* the two paint options are set before the rooms are entered
InitInterior ==
    /\ input \in {[createDefaultInteriorJob EXCEPT !.customerSuppliesPaint = c,
                                                   !.premiumPaint = p] :
                      c \in BOOLEAN, p \in BOOLEAN}
    /\ result = NoResult

\* the caller adds a room or fills in one more field of the job
EditInteriorJob ==
    /\ result = NoResult
    /\ ChangedInteriorFields(input) < MaxChangedFields
    /\ \E job \in InteriorEdits(input) : input' = job
    /\ UNCHANGED result

CalculateInterior ==
    /\ result = NoResult
    /\ result' = Returned(calculateInteriorEstimate(input))
    /\ UNCHANGED input

NextInterior == EditInteriorJob \/ CalculateInterior

SpecInterior == InitInterior /\ [][NextInterior]_vars
(***************************************************************************)
(* calculateRoomWalls on its own: Init draws the arguments, the action     *)
(* applies the function.                                                   *)
(***************************************************************************)
MaxWallSqftHalves == 400

\* floor areas from -1 to 200 sq.ft in steps of one half: every category's
\* minimum-charge threshold, vaulted or not, lies inside
WallSqfts == {Half(k) : k \in -2..MaxWallSqftHalves}

WallInputs ==
    [floorSqft : WallSqfts, roomType : RoomTypes \cup {"unknown"},
     vaulted : BOOLEAN, paintWalls : BOOLEAN]

InitWalls ==
    /\ input \in WallInputs
    /\ result = NoResult

CalculateWalls ==
    /\ result = NoResult
    /\ result' = Returned(calculateRoomWalls(input.floorSqft, input.roomType,
                                             input.vaulted, input.paintWalls))
    /\ UNCHANGED input

NextWalls == CalculateWalls

SpecWalls == InitWalls /\ [][NextWalls]_vars

(***************************************************************************)
(* calculateSetupFee on its own.  The caller prices one subtotal and then, *)
(* as the job is edited, prices others.                                    *)
(***************************************************************************)
Spread == 6

\* subtotals: around zero (negative and fractional ones included), every
\* hundred up to 2000, and in steps of one half around 1266, where the cap
\* starts to bind, and around the threshold 1566
Subtotals ==
    {Half(k) : k \in -4..4}
    \cup {Whole(100 * k) : k \in 0..20}
    \cup {Whole(1266) + Half(k) : k \in -Spread..Spread}
    \cup {Whole(1566) + Half(k) : k \in -Spread..Spread}

InitSetupFee ==
    /\ input \in Subtotals
    /\ result = NoResult

CalculateSetupFee ==
    /\ result = NoResult
    /\ result' = Returned(calculateSetupFee(input))
    /\ UNCHANGED input

RecalculateSetupFee ==
    /\ result.returned
    /\ \E subtotal \in Subtotals :
          /\ input' = subtotal
          /\ result' = Returned(calculateSetupFee(subtotal))

NextSetupFee == CalculateSetupFee \/ RecalculateSetupFee

SpecSetupFee == InitSetupFee /\ [][NextSetupFee]_vars

(***************************************************************************)
(* getFlakingAdjustment on its own.                                        *)
(***************************************************************************)
MaxOverrideHundredths == 160

\* overrides from -0.20 to 1.60 in steps of 0.01, and no override
FlakingInputs ==
    [severity : FlakingSeverities \cup {"unknown"},
     heavyAdjustment : {Undefined}
                       \cup {Some(Dec(k, 100)) : k \in -20..MaxOverrideHundredths}]

InitFlaking ==
    /\ input \in FlakingInputs
    /\ result = NoResult

GetFlakingAdjustment ==
    /\ result = NoResult
    /\ result' = Returned(getFlakingAdjustment(input.severity, input.heavyAdjustment))
    /\ UNCHANGED input

NextFlaking == GetFlakingAdjustment

SpecFlaking == InitFlaking /\ [][NextFlaking]_vars

(***************************************************************************)
(* Properties of the exterior engine (checked under SpecExterior)          *)
(***************************************************************************)
\* the whole number nearest to x, the upper one when x lies half-way
Nearest(x) ==
    LET below == x - (x % SCALE)
    IN  IF 2 * (x - below) < SCALE THEN below ELSE below + SCALE

\* a job as the form produces it: a whole, non-negative area and counts
ValidExteriorJob(job) ==
    /\ IsWhole(job.houseSqft) /\ job.houseSqft >= 0
    /\ IsWhole(job.shutterCount) /\ job.shutterCount >= 0
    /\ IsWhole(job.garageDoors.oneCarDoors) /\ job.garageDoors.oneCarDoors >= 0
    /\ IsWhole(job.garageDoors.twoCarDoors) /\ job.garageDoors.twoCarDoors >= 0

\* C1: for every exterior job the costs of the line items returned by
\* calculateExteriorEstimate add up to result.total exactly.  The claim is
\* stated here for the valid jobs only, which it covers.
C1_LineItemsSumToTotal ==
    (result.returned /\ ValidExteriorJob(input))
        => SumCost(result.value.lineItems) = result.value.total

\* C3: the master formula.  totalMultiplier is the height multiplier of the
\* story (1.25 / 1.5 / 1.75 / 2.25, an unknown story 1.25) plus the difficulty
\* and flaking adjustments; baseCalculation = round(totalMultiplier x houseSqft
\* + 1750); afterCoatMultiplier = round(baseCalculation x 1.6); totalAddOns =
\* shutterCount x 75 + 250 if the front door is painted + oneCarDoors x 200 +
\* twoCarDoors x 400; fullExteriorTotal = round(afterCoatMultiplier +
\* totalAddOns); finalTotal = round(fullExteriorTotal x scopeMultiplier);
\* result.total = finalTotal.  A one-story house of 2000 sq.ft with nothing
\* else set gives 4250, 6800 and 6800.
C3_MasterFormula ==
    result.returned =>
        LET job == input
            b == result.value.breakdown
            height == CASE job.storyType = "one_story" -> Dec(125, 100)
                        [] job.storyType = "one_half_story" -> Dec(15, 10)
                        [] job.storyType = "two_story" -> Dec(175, 100)
                        [] job.storyType = "three_story" -> Dec(225, 100)
                        [] OTHER -> Dec(125, 100)
        IN  /\ b.heightMultiplier = height
            /\ b.totalMultiplier = height + b.difficultyAdjustment + b.flakingAdjustment
            /\ b.baseCalculation
                 = Nearest(Mul(b.totalMultiplier, job.houseSqft) + Whole(1750))
            /\ b.afterCoatMultiplier = Nearest(Mul(b.baseCalculation, Dec(16, 10)))
            /\ b.totalAddOns
                 = Mul(job.shutterCount, Whole(75))
                   + (IF job.paintFrontDoor THEN Whole(250) ELSE Whole(0))
                   + Mul(job.garageDoors.oneCarDoors, Whole(200))
                   + Mul(job.garageDoors.twoCarDoors, Whole(400))
            /\ b.fullExteriorTotal = Nearest(b.afterCoatMultiplier + b.totalAddOns)
            /\ b.finalTotal = Nearest(Mul(b.fullExteriorTotal, b.scopeMultiplier))
            /\ result.value.total = b.finalTotal
            /\ job = [createDefaultExteriorJob EXCEPT !.houseSqft = Whole(2000)]
                 => /\ b.baseCalculation = Whole(4250)
                    /\ b.afterCoatMultiplier = Whole(6800)
                    /\ b.finalTotal = Whole(6800)

\* C3 witness: a 1001 sq.ft one-story house with medium flaking, trim only:
\* 1.55 x 1001 + 1750 = 3301.55 -> 3302, x 1.6 = 5283.2 -> 5283, x 0.6 =
\* 3169.8 -> 3170; every checkpoint rounds.
C3_Witness ==
    /\ result.returned
    /\ input.houseSqft = Whole(1001)
    /\ input.flakingSeverity = "medium"
    /\ input.scope = "trim_only"
    /\ result.value.breakdown.baseCalculation = Whole(3302)
    /\ result.value.breakdown.afterCoatMultiplier = Whole(5283)
    /\ result.value.total = Whole(3170)

\* C10: every line item cost and every monetary field of a result is a whole
\* number of currency units (interior: each line item, roomTotal, subtotal,
\* setupFee, total; exterior: each line item, shuttersCost, garageDoorsCost,
\* totalAddOns, baseCalculation, afterCoatMultiplier, fullExteriorTotal,
\* finalTotal), whatever the numeric input.
C10_MoneyIsWhole ==
    result.returned =>
        LET r == result.value
        IN  /\ \A i \in 1..Len(r.lineItems) : IsWhole(r.lineItems[i].cost)
            /\ IsWhole(r.total)
            /\ IF "breakdown" \in DOMAIN r
               THEN /\ IsWhole(r.breakdown.shuttersCost)
                    /\ IsWhole(r.breakdown.garageDoorsCost)
                    /\ IsWhole(r.breakdown.totalAddOns)
                    /\ IsWhole(r.breakdown.baseCalculation)
                    /\ IsWhole(r.breakdown.afterCoatMultiplier)
                    /\ IsWhole(r.breakdown.fullExteriorTotal)
                    /\ IsWhole(r.breakdown.finalTotal)
               ELSE /\ \A i \in 1..Len(r.rooms) : IsWhole(r.rooms[i].roomTotal)
                    /\ IsWhole(r.subtotal)
                    /\ IsWhole(r.setupFee)

(***************************************************************************)
(* Properties of the interior engine (checked under SpecInterior)          *)
(***************************************************************************)
IsRoomItem(item) == item.roomId # Null
IsSetupFeeItem(item) == item.category = "setup_fee"
IsNotSetupFeeItem(item) == item.category # "setup_fee"
IsDeductionItem(item) == item.name = "Customer supplied paint"
IsPremiumItem(item) == item.name = "Premium paint upgrade"
IsColorsItem(item) == item.category = "additional_colors"

\* the positions in items of the items that satisfy Keep
Positions(items, Keep(_)) == {i \in 1..Len(items) : Keep(items[i])}

\* the fee the rule gives on a subtotal: nothing from 1566 on, otherwise the
\* shortfall, at most 300, to the nearest whole unit
ExpectedSetupFee(subtotal) ==
    IF subtotal >= Whole(1566) THEN Whole(0)
    ELSE Nearest(Min(Whole(300), Whole(1566) - Max(subtotal, Whole(0))))

\* the fee for the wall colors beyond the first: 134 each, a fractional
\* number of colors counting as its whole part
ExpectedColorsFee(numWallColors) ==
    IF numWallColors < Whole(2) THEN Whole(0)
    ELSE ((numWallColors \div SCALE) - 1) * Whole(134)

\* C2: the costs of result.lineItems add up to result.total, and without the
\* setup-fee item they add up to result.subtotal.
C2_InteriorItemsSumToTotals ==
    result.returned =>
        LET r == result.value
        IN  /\ SumCost(r.lineItems) = r.total
            /\ SumCost(SelectSeq(r.lineItems, IsNotSetupFeeItem)) = r.subtotal

\* a job with a priced room, a negative deduction item and a setup-fee item
C2_Witness ==
    /\ result.returned
    /\ input.customerSuppliesPaint
    /\ Len(input.rooms) = 1
    /\ input.rooms[1].floorSqft = Half(301)
    /\ result.value.setupFee = Whole(300)
    /\ \E i \in 1..Len(result.value.lineItems) : result.value.lineItems[i].cost < 0
    /\ \E i \in 1..Len(result.value.lineItems) : IsSetupFeeItem(result.value.lineItems[i])
    /\ result.value.total = result.value.subtotal + Whole(300)

\* C7: the additional-color fee is added to the room items first; then, when
\* the customer supplies the paint, the deduction is 15 % of the room items
\* plus the color fee, rounded, recorded as a negative line item; then the
\* premium upcharge of 200 is added, so that it is not part of what the
\* deduction is taken on.
C7_AdjustmentOrder ==
    result.returned =>
        LET r == result.value
            job == input
            roomSum == SumCost(SelectSeq(r.lineItems, IsRoomItem))
            colors == ExpectedColorsFee(job.numWallColors)
            deduction == IF job.customerSuppliesPaint
                         THEN Nearest(Mul(roomSum + colors, Dec(15, 100)))
                         ELSE Whole(0)
            premium == IF job.premiumPaint THEN Whole(200) ELSE Whole(0)
            colorsAt == Positions(r.lineItems, IsColorsItem)
            deductionAt == Positions(r.lineItems, IsDeductionItem)
            premiumAt == Positions(r.lineItems, IsPremiumItem)
        IN  /\ SumCost(SelectSeq(r.lineItems, IsColorsItem)) = colors
            /\ Cardinality(deductionAt) = (IF job.customerSuppliesPaint THEN 1 ELSE 0)
            /\ \A i \in deductionAt : r.lineItems[i].cost = 0 - deduction
            /\ Cardinality(premiumAt) = (IF job.premiumPaint THEN 1 ELSE 0)
            /\ \A i \in premiumAt : r.lineItems[i].cost = Whole(200)
            /\ \A i \in colorsAt : \A j \in deductionAt \cup premiumAt : i < j
            /\ \A i \in deductionAt : \A j \in premiumAt : i < j
            /\ r.subtotal = roomSum + colors - deduction + premium

\* one room of 150.5 sq.ft (421 after rounding) and three colors (268): the
\* deduction is round(0.15 x 689) = 103, and the premium comes on top
C7_Witness ==
    /\ result.returned
    /\ input.customerSuppliesPaint /\ input.premiumPaint
    /\ input.numWallColors = Whole(3)
    /\ Len(input.rooms) = 1
    /\ input.rooms[1].floorSqft = Half(301)
    /\ \E i \in 1..Len(result.value.lineItems) :
          /\ IsDeductionItem(result.value.lineItems[i])
          /\ result.value.lineItems[i].cost = 0 - Whole(103)
    /\ result.value.subtotal = Whole(421 + 268 - 103 + 200)

\* C8: the setup fee is taken on the subtotal after the three adjustments
\* (colors, customer-supplied paint, premium), and total = subtotal + setupFee.
C8_SetupFeeOnAdjustedSubtotal ==
    result.returned =>
        LET r == result.value
            job == input
            roomSum == SumCost(SelectSeq(r.lineItems, IsRoomItem))
            colors == ExpectedColorsFee(job.numWallColors)
            deduction == IF job.customerSuppliesPaint
                         THEN Nearest(Mul(roomSum + colors, Dec(15, 100)))
                         ELSE Whole(0)
            premium == IF job.premiumPaint THEN Whole(200) ELSE Whole(0)
            adjusted == roomSum + colors - deduction + premium
        IN  /\ r.subtotal = adjusted
            /\ r.setupFee = ExpectedSetupFee(adjusted)
            /\ r.total = r.subtotal + r.setupFee

\* a room of 500 sq.ft is 1400, under the threshold; the premium upcharge
\* takes the subtotal to 1600, over it, and no setup fee is charged
C8_Witness ==
    /\ result.returned
    /\ input.premiumPaint /\ ~input.customerSuppliesPaint
    /\ input.numWallColors = Whole(1)
    /\ Len(input.rooms) = 1
    /\ input.rooms[1].floorSqft = Whole(500)
    /\ result.value.subtotal = Whole(1600)
    /\ result.value.setupFee = Whole(0)
    /\ result.value.total = Whole(1600)

(***************************************************************************)
(* Properties of calculateRoomWalls (checked under SpecWalls)              *)
(***************************************************************************)
\* C4: calculateRoomWalls returns cost 0 when paintWalls is false or the area
\* is not positive; otherwise cost = max(round(area x m), 275), never under
\* 275, with m = 2.8 (general), 3.1 (kitchen) or 4.1 (bathroom), plus 0.5 when
\* vaulted, and minimumApplied is true exactly when area x m < 275.
C4_RoomWalls ==
    (result.returned /\ input.roomType \in RoomTypes) =>
        LET area == input.floorSqft
            m == (CASE input.roomType = "general" -> Dec(28, 10)
                    [] input.roomType = "kitchen" -> Dec(31, 10)
                    [] input.roomType = "bathroom" -> Dec(41, 10))
                 + (IF input.vaulted THEN Dec(5, 10) ELSE Whole(0))
        IN  IF ~input.paintWalls \/ area <= 0
            THEN result.value.cost = Whole(0)
            ELSE /\ result.value.cost = Max(Nearest(Mul(area, m)), Whole(275))
                 /\ result.value.cost >= Whole(275)
                 /\ result.value.multiplier = m
                 /\ result.value.minimumApplied = (Mul(area, m) < Whole(275))

\* a vaulted general room of 90 sq.ft: 90 x 3.3 = 297, over the minimum that
\* 90 x 2.8 = 252 would have fallen under
C4_Witness ==
    /\ result.returned
    /\ input.floorSqft = Whole(90)
    /\ input.roomType = "general"
    /\ input.vaulted /\ input.paintWalls
    /\ result.value.cost = Whole(297)
    /\ ~result.value.minimumApplied

(***************************************************************************)
(* Properties of calculateSetupFee (checked under SpecSetupFee)            *)
(***************************************************************************)
\* C5, as stated: the fee is 0 when the subtotal is 1566 or more, otherwise
\* min(300, 1566 - subtotal); never negative and never above 300.
C5_SetupFeeAsStated ==
    result.returned =>
        /\ result.value.fee = (IF input >= Whole(1566) THEN Whole(0)
                               ELSE Min(Whole(300), Whole(1566) - input))
        /\ result.value.fee >= 0
        /\ result.value.fee <= Whole(300)

\* C5, amended: the fee is 0 when the subtotal is 1566 or more, otherwise
\* min(300, 1566 - subtotal) rounded to the nearest whole unit; never negative
\* and never above 300.
C5_SetupFeeRounded ==
    result.returned =>
        /\ result.value.fee = (IF input >= Whole(1566) THEN Whole(0)
                               ELSE Nearest(Min(Whole(300), Whole(1566) - input)))
        /\ result.value.fee >= 0
        /\ result.value.fee <= Whole(300)

\* a subtotal of 1565.5: the shortfall of 0.5 is charged as 1
C5_Witness ==
    /\ result.returned
    /\ input = Whole(1566) - Half(1)
    /\ result.value.fee = Whole(1)

\* C6: the setup fee never rises with the subtotal: from one call to the next,
\* a subtotal at least as large gives a fee at most as large, negative and
\* fractional subtotals included.
C6_SetupFeeMonotone ==
    [][(result.returned /\ result'.returned /\ input <= input')
          => result'.value.fee <= result.value.fee]_vars

\* a fractional subtotal in the band where the fee falls with the subtotal
C6_Witness ==
    /\ result.returned
    /\ input = Whole(1566) - Half(3)
    /\ result.value.fee = Whole(2)

(***************************************************************************)
(* Properties of getFlakingAdjustment (checked under SpecFlaking)          *)
(***************************************************************************)
\* C9: getFlakingAdjustment returns 0 for LIGHT and 0.3 for MEDIUM whatever
\* the override; for HEAVY it returns the override clamped to [0.5, 1.0], and
\* 0.5 when the override is omitted.
C9_FlakingAdjustment ==
    result.returned =>
        LET override == input.heavyAdjustment
        IN  CASE input.severity = "light" -> result.value = Whole(0)
              [] input.severity = "medium" -> result.value = Dec(3, 10)
              [] input.severity = "heavy" ->
                    IF override = Undefined THEN result.value = Dec(5, 10)
                    ELSE /\ result.value >= Dec(5, 10)
                         /\ result.value <= Whole(1)
                         /\ (override[1] < Dec(5, 10) => result.value = Dec(5, 10))
                         /\ (override[1] > Whole(1) => result.value = Whole(1))
                         /\ (override[1] >= Dec(5, 10) /\ override[1] <= Whole(1)
                                => result.value = override[1])
              [] OTHER -> TRUE

\* a heavy override of 1.5 comes back as 1.0
C9_Witness ==
    /\ result.returned
    /\ input.severity = "heavy"
    /\ input.heavyAdjustment = Some(Dec(15, 10))
    /\ result.value = Whole(1)

(***************************************************************************)
(* Further properties of the exterior engine (checked under SpecExterior)  *)
(***************************************************************************)
\* a count as the claim would have it priced: truncated, and at least zero
TruncatedCount(x) == Max(Whole(0), Floor(x))

\* the job with its area made non-negative and its counts truncated
ClampedExteriorJob(job) ==
    [job EXCEPT !.houseSqft = Max(Whole(0), @),
                !.shutterCount = TruncatedCount(@),
                !.garageDoors = [oneCarDoors |-> TruncatedCount(@.oneCarDoors),
                                 twoCarDoors |-> TruncatedCount(@.twoCarDoors)]]

\* C11: out-of-range input is clamped: a job with a negative area or negative
\* or fractional counts gets the breakdown and total of the job with the area
\* made non-negative and the counts truncated, so that no add-on cost and no
\* total is negative.
C11_OutOfRangeClamped ==
    result.returned =>
        LET clamped == calculateExteriorEstimate(ClampedExteriorJob(input),
                                                result.value.calculatedAt)
        IN  /\ result.value.breakdown = clamped.breakdown
            /\ result.value.total = clamped.total
            /\ result.value.breakdown.shuttersCost >= 0
            /\ result.value.breakdown.garageDoorsCost >= 0
            /\ result.value.breakdown.totalAddOns >= 0
            /\ result.value.total >= 0

(***************************************************************************)
(* calculateAdditionalColors on its own.                                   *)
(***************************************************************************)
MaxColorHalves == 60

\* numbers of wall colors from -5 to 30 in steps of one half
ColorCounts == {Half(k) : k \in -10..MaxColorHalves}

InitColors ==
    /\ input \in ColorCounts
    /\ result = NoResult

CalculateColors ==
    /\ result = NoResult
    /\ result' = Returned(calculateAdditionalColors(input))
    /\ UNCHANGED input

NextColors == CalculateColors

SpecColors == InitColors /\ [][NextColors]_vars

\* C12, as stated: the cost is max(0, n - 1) x 134 for every n, never negative,
\* and extraColors is max(0, floor(n) - 1).
C12_ColorsAsStated ==
    result.returned =>
        /\ result.value.cost = Mul(Max(Whole(0), input - Whole(1)), Whole(134))
        /\ result.value.cost >= 0
        /\ result.value.extraColors = Max(Whole(0), Floor(input) - Whole(1))

\* C12, amended: the cost is max(0, floor(n) - 1) x 134 for every n, never
\* negative, and extraColors is max(0, floor(n) - 1).
C12_ColorsTruncated ==
    result.returned =>
        /\ result.value.cost
             = Mul(Max(Whole(0), Floor(input) - Whole(1)), Whole(134))
        /\ result.value.cost >= 0
        /\ result.value.extraColors = Max(Whole(0), Floor(input) - Whole(1))

\* 2.5 colors are billed as one extra color
C12_Witness ==
    /\ result.returned
    /\ input = Half(5)
    /\ result.value.cost = Whole(134)
    /\ result.value.extraColors = Whole(1)

(***************************************************************************)
(* Further properties of the interior engine (checked under SpecInterior)  *)
(***************************************************************************)
\* the warnings list holds the given text
HasWarning(warnings, text) == \E i \in 1..Len(warnings) : warnings[i].text = text

\* C13, as stated: every job with an empty room list gets subtotal 0, setup
\* fee 300, total 300 and the warning 'No rooms added to estimate'.
C13_EmptyJobAsStated ==
    (result.returned /\ input.rooms = <<>>) =>
        /\ result.value.subtotal = Whole(0)
        /\ result.value.setupFee = Whole(300)
        /\ result.value.total = Whole(300)
        /\ HasWarning(result.value.warnings, "No rooms added to estimate")

\* C13, amended: every job with an empty room list, fewer than two wall
\* colors and no premium paint gets subtotal 0, setup fee 300, total 300 and
\* the warning 'No rooms added to estimate'.
C13_EmptyJobWithoutOptions ==
    (/\ result.returned
     /\ input.rooms = <<>>
     /\ input.numWallColors < Whole(2)
     /\ ~input.premiumPaint) =>
        /\ result.value.subtotal = Whole(0)
        /\ result.value.setupFee = Whole(300)
        /\ result.value.total = Whole(300)
        /\ HasWarning(result.value.warnings, "No rooms added to estimate")

\* an empty job whose customer supplies the paint: nothing to deduct from
C13_Witness ==
    /\ result.returned
    /\ input.rooms = <<>>
    /\ input.customerSuppliesPaint /\ ~input.premiumPaint
    /\ input.numWallColors = Whole(0)
    /\ result.value.total = Whole(300)
    /\ Len(result.value.warnings) = 1

(***************************************************************************)
(* Both engines, each called on a job and then called again on the same    *)
(* job at a later reading of the clock.                                    *)
(***************************************************************************)
IsExteriorResult(r) == "breakdown" \in DOMAIN r

RecalculateExterior ==
    /\ result.returned
    /\ IsExteriorResult(result.value)
    /\ \E now \in Times :
          /\ now > result.value.calculatedAt
          /\ result' = Returned(calculateExteriorEstimate(input, now))
    /\ UNCHANGED input

RecalculateInterior ==
    /\ result.returned
    /\ ~IsExteriorResult(result.value)
    /\ result' = Returned(calculateInteriorEstimate(input))
    /\ UNCHANGED input

InitEngines == InitExterior \/ InitInterior

\* the job at hand is an exterior job, or an interior one
IsExteriorJob(job) == "houseSqft" \in DOMAIN job

NextEngines ==
    \/ IsExteriorJob(input) /\ EditExteriorJob
    \/ IsExteriorJob(input) /\ CalculateExterior
    \/ RecalculateExterior
    \/ ~IsExteriorJob(input) /\ EditInteriorJob
    \/ ~IsExteriorJob(input) /\ CalculateInterior
    \/ RecalculateInterior

SpecEngines == InitEngines /\ [][NextEngines]_vars

SideDifficultyLists ==
    {[i \in 1..4 |-> [side |-> SideIds[i],
                      nonFlatGround |-> nonFlat[i],
                      roofAccess |-> roof[i]]] :
        nonFlat \in [1..4 -> BOOLEAN], roof \in [1..4 -> BOOLEAN]}

InitDifficulty ==
    /\ input \in SideDifficultyLists
    /\ result = NoResult

CalculateDifficulty ==
    /\ result = NoResult
    /\ result' = Returned(calculateDifficultyAdjustment(input))
    /\ UNCHANGED input

NextDifficulty == CalculateDifficulty

SpecDifficulty == InitDifficulty /\ [][NextDifficulty]_vars

\* C15: calculateDifficultyAdjustment returns 0.25 for every side with
\* nonFlatGround plus 0.25 for every side with roofAccess, and the two counts;
\* for four sides the adjustment lies between 0 and 2.0 in steps of 0.25, a
\* side with both flags contributing 0.5.
C15_DifficultyAdjustment ==
    result.returned =>
        LET nonFlat == {i \in 1..Len(input) : input[i].nonFlatGround}
            roof == {i \in 1..Len(input) : input[i].roofAccess}
            both == nonFlat \cap roof
            one == (nonFlat \cup roof) \ both
        IN  /\ result.value.nonFlatCount = Cardinality(nonFlat)
            /\ result.value.roofAccessCount = Cardinality(roof)
            /\ result.value.adjustment
                 = Cardinality(nonFlat) * Dec(25, 100) + Cardinality(roof) * Dec(25, 100)
            /\ result.value.adjustment
                 = Cardinality(both) * Dec(5, 10) + Cardinality(one) * Dec(25, 100)
            /\ result.value.adjustment \in {k * Dec(25, 100) : k \in 0..8}

\* the front side alone, with both flags: 0.5
C15_Witness ==
    /\ result.returned
    /\ input[1].nonFlatGround /\ input[1].roofAccess
    /\ \A i \in 2..4 : ~input[i].nonFlatGround /\ ~input[i].roofAccess
    /\ result.value.adjustment = Dec(5, 10)
    /\ result.value.nonFlatCount = 1
    /\ result.value.roofAccessCount = 1

(***************************************************************************)
(* Properties of the exterior scope (checked under SpecExterior)           *)
(***************************************************************************)
\* the total the job would have with scope FULL
FullScopeTotal(job, now) ==
    calculateExteriorEstimate([job EXCEPT !.scope = "full"], now).total

\* the scope multiplier is 1.0 for FULL and 0.6 for TRIM_ONLY and SIDING_ONLY,
\* and a partial-scope total is round(0.6 x the full-scope total of the job)
ScopeFormula ==
    result.returned =>
        LET r == result.value
            full == FullScopeTotal(input, r.calculatedAt)
        IN  /\ input.scope = "full" =>
                  r.breakdown.scopeMultiplier = Whole(1) /\ r.total = full
            /\ input.scope \in {"trim_only", "siding_only"} =>
                  /\ r.breakdown.scopeMultiplier = Dec(6, 10)
                  /\ r.breakdown.fullExteriorTotal = full
                  /\ r.total = Nearest(Mul(full, Dec(6, 10)))

\* C16: getScopeMultiplier is 1.0 for FULL and 0.6 for TRIM_ONLY and
\* SIDING_ONLY; a partial-scope total is round(0.6 x fullExteriorTotal), where
\* fullExteriorTotal is the total of the same job with scope FULL; hence a
\* partial-scope total never exceeds the full-scope total of the same job.
C16_PartialScope ==
    /\ ScopeFormula
    /\ (result.returned /\ input.scope \in {"trim_only", "siding_only"}) =>
          result.value.total <= FullScopeTotal(input, result.value.calculatedAt)

(***************************************************************************)
(* calculateTrim on its own.                                               *)
(***************************************************************************)
MaxTrimHalves == 20

\* floor areas and linear feet from -1 to 10 in steps of one half
TrimMeasures == {Half(k) : k \in -2..MaxTrimHalves}

TrimInputs ==
    [floorSqft : TrimMeasures, trimMode : TrimModes, baseboardLF : TrimMeasures,
     wallsBeingPainted : BOOLEAN, stainedConversion : BOOLEAN]

InitTrim ==
    /\ input \in TrimInputs
    /\ result = NoResult

CalculateTrim ==
    /\ result = NoResult
    /\ result' = Returned(calculateTrim(input.floorSqft, input.trimMode,
                                        input.baseboardLF, input.wallsBeingPainted,
                                        input.stainedConversion))
    /\ UNCHANGED input

NextTrim == CalculateTrim

SpecTrim == InitTrim /\ [][NextTrim]_vars

\* C17: calculateTrim returns 0 for mode NONE; the area-based package prices
\* floor area x 0.5; linear-foot baseboards price linear feet x 1.88 when the
\* walls are painted and x 5.60 otherwise; with stained conversion and a
\* positive mode cost the unrounded mode cost is multiplied by 3 and only then
\* rounded: cost = round(modeCost x 3), not round(modeCost) x 3.
C17_Trim ==
    result.returned =>
        LET area == Max(input.floorSqft, Whole(0))
            feet == Max(input.baseboardLF, Whole(0))
            modeCost ==
                CASE input.trimMode = "none" -> Whole(0)
                  [] input.trimMode = "trim_package_sf" -> Mul(area, Dec(5, 10))
                  [] input.trimMode = "baseboards_lf" ->
                        IF input.wallsBeingPainted THEN Mul(feet, Dec(188, 100))
                        ELSE Mul(feet, Dec(56, 10))
        IN  result.value.cost
              = (IF input.stainedConversion /\ modeCost > 0
                 THEN Nearest(Mul(modeCost, Whole(3)))
                 ELSE Nearest(modeCost))

\* 1.5 LF of baseboards with the walls painted, stained: 2.82 x 3 = 8.46 is
\* charged as 8, where round(2.82) x 3 would be 9
C17_Witness ==
    /\ result.returned
    /\ input.trimMode = "baseboards_lf"
    /\ input.baseboardLF = Half(3)
    /\ input.wallsBeingPainted /\ input.stainedConversion
    /\ result.value.cost = Whole(8)

(***************************************************************************)
(* calculateRoom on its own, on a room with its area, category and the     *)
(* wall, ceiling and vaulted flags drawn, the other fields at their        *)
(* defaults.                                                               *)
(***************************************************************************)
MaxRoomSqftHalves == 40

\* floor areas from -1 to 20 in steps of one half, and three of room size
RoomAreas ==
    {Half(k) : k \in -2..MaxRoomSqftHalves} \cup {Half(301), Whole(500), Whole(6000)}

RoomInputs ==
    {[createRoom(1) EXCEPT !.floorSqft = a, !.roomType = t, !.paintWalls = w,
                           !.paintCeiling = c, !.vaulted = v] :
        a \in RoomAreas, t \in RoomTypes, w \in BOOLEAN, c \in BOOLEAN, v \in BOOLEAN}

InitRoom ==
    /\ input \in RoomInputs
    /\ result = NoResult

CalculateRoom ==
    /\ result = NoResult
    /\ result' = Returned(calculateRoom(input))
    /\ UNCHANGED input

NextRoom == CalculateRoom

SpecRoom == InitRoom /\ [][NextRoom]_vars

IsCeilingItem(item) == item.category = "ceiling"

\* C18: the ceiling costs 0 when it is not in scope or the area is not
\* positive; otherwise round(area x 0.6) when the room's walls are painted too
\* and round(area x 1.7) when they are not, calculateRoom passing the room's
\* paintWalls flag as that condition.
C18_Ceiling ==
    result.returned =>
        LET expected ==
                IF ~input.paintCeiling \/ input.floorSqft <= 0 THEN Whole(0)
                ELSE IF input.paintWalls
                     THEN Nearest(Mul(input.floorSqft, Dec(6, 10)))
                     ELSE Nearest(Mul(input.floorSqft, Dec(17, 10)))
            ceilingItems == SelectSeq(result.value.lineItems, IsCeilingItem)
        IN  /\ calculateCeiling(input.floorSqft, input.paintCeiling,
                                input.paintWalls).cost = expected
            /\ SumCost(ceilingItems) = expected
            /\ Len(ceilingItems) = (IF expected > 0 THEN 1 ELSE 0)

\* a ceiling of 150.5 sq.ft in a room whose walls are left alone: 255.85
C18_Witness ==
    /\ result.returned
    /\ input.floorSqft = Half(301)
    /\ input.paintCeiling /\ ~input.paintWalls
    /\ \E i \in 1..Len(result.value.lineItems) :
          /\ IsCeilingItem(result.value.lineItems[i])
          /\ result.value.lineItems[i].cost = Whole(256)

(***************************************************************************)
(* calculateDoors and calculateClosets on their own.                       *)
(***************************************************************************)
MaxCountInputHalves == 8

\* counts from -2.5 to 4 in steps of one half
CountInputs == {Half(k) : k \in -5..MaxCountInputHalves}

InitCounts ==
    /\ input \in [sides : CountInputs, standard : CountInputs, walkIn : CountInputs]
    /\ result = NoResult

CalculateDoors ==
    /\ result = NoResult
    /\ result' = Returned([doors |-> calculateDoors(input.sides)])
    /\ UNCHANGED input

CalculateClosets ==
    /\ result = NoResult
    /\ result' = Returned([closets |-> calculateClosets(input.standard, input.walkIn)])
    /\ UNCHANGED input

NextCounts == CalculateDoors \/ CalculateClosets

SpecCounts == InitCounts /\ [][NextCounts]_vars

\* x truncated toward zero
Trunc(x) == IF x >= 0 THEN (x \div SCALE) * SCALE ELSE 0 - ((0 - x) \div SCALE) * SCALE

\* C19: counts are truncated toward zero and clamped to non-negative before
\* pricing: calculateDoors(s).cost = 63 x max(0, trunc(s)), and
\* calculateClosets(a, b).cost = 120 x max(0, trunc(a)) + 185 x max(0, trunc(b)).
C19_CountsTruncated ==
    result.returned =>
        /\ "doors" \in DOMAIN result.value =>
              result.value.doors.cost
                = (Max(Whole(0), Trunc(input.sides)) \div SCALE) * Whole(63)
        /\ "closets" \in DOMAIN result.value =>
              result.value.closets.cost
                = (Max(Whole(0), Trunc(input.standard)) \div SCALE) * Whole(120)
                  + (Max(Whole(0), Trunc(input.walkIn)) \div SCALE) * Whole(185)

\* 2.5 standard closets and a negative number of walk-in ones: two standard
C19_Witness ==
    /\ result.returned
    /\ "closets" \in DOMAIN result.value
    /\ input.standard = Half(5)
    /\ input.walkIn = Half(-3)
    /\ result.value.closets.cost = Whole(240)

(***************************************************************************)
(* calculateWindows on its own, on lists of at most MaxWindowList windows. *)
(***************************************************************************)
MaxWindowList == 3

\* size factors: missing, negative, zero, tiny, fractional, just under 2, 2, 3
WindowFactors ==
    {Undefined, Some(Whole(-1)), Some(Whole(0)), Some(Dec(1, 100)), Some(Half(1)),
     Some(Whole(1)), Some(Half(3)), Some(Dec(199, 100)), Some(Whole(2)), Some(Whole(3))}

WindowLists ==
    UNION {[1..n -> {[sizeFactor |-> f] : f \in WindowFactors}] : n \in 0..MaxWindowList}

InitWindows ==
    /\ input \in WindowLists
    /\ result = NoResult

CalculateWindows ==
    /\ result = NoResult
    /\ result' = Returned(calculateWindows(input))
    /\ UNCHANGED input

NextWindows == CalculateWindows

SpecWindows == InitWindows /\ [][NextWindows]_vars

\* the size factor a window is priced at: 1 when missing, zero or negative
PricedFactor(window) ==
    IF window.sizeFactor = Undefined THEN Whole(1)
    ELSE IF window.sizeFactor[1] <= 0 THEN Whole(1)
    ELSE window.sizeFactor[1]

RECURSIVE SumOfWindows(_)
\* the sum over the list of 70 x the priced factor
SumOfWindows(windows) ==
    IF windows = <<>> THEN Whole(0)
    ELSE Mul(Whole(70), PricedFactor(Head(windows))) + SumOfWindows(Tail(windows))

\* C20: calculateWindows returns round(sum over the list of 70 x f), f being
\* the size factor, replaced by 1 when missing, zero or negative; an empty
\* list costs 0; a window counts as large exactly when f >= 2, as standard
\* otherwise.
C20_Windows ==
    result.returned =>
        LET large == {i \in 1..Len(input) : PricedFactor(input[i]) >= Whole(2)}
        IN  /\ result.value.cost = Nearest(SumOfWindows(input))
            /\ input = <<>> => result.value.cost = Whole(0)
            /\ result.value.largeCount = Cardinality(large)
            /\ result.value.standardCount = Len(input) - Cardinality(large)

\* three windows: no factor, a negative factor and a factor of 3
C20_Witness ==
    /\ result.returned
    /\ Len(input) = 3
    /\ input[1].sizeFactor = Undefined
    /\ input[2].sizeFactor = Some(Whole(-1))
    /\ input[3].sizeFactor = Some(Whole(3))
    /\ result.value.cost = Whole(350)
    /\ result.value.largeCount = 1
    /\ result.value.standardCount = 2

(***************************************************************************)
(* Properties of the room and job line items (checked under SpecInterior)  *)
(***************************************************************************)
\* the cost of each sub-calculation of a room, by line-item category
SubCalculationCosts(room) ==
    [walls |-> calculateRoomWalls(room.floorSqft, room.roomType,
                                  room.vaulted, room.paintWalls).cost,
     ceiling |-> calculateCeiling(room.floorSqft, room.paintCeiling,
                                  room.paintWalls).cost,
     trim |-> calculateTrim(room.floorSqft, room.trimMode, room.baseboardLF,
                            room.paintWalls, room.stainedTrimConversion).cost,
     crown_molding |-> calculateCrownMolding(room.crownMoldingLF).cost,
     doors |-> calculateDoors(room.doorSides).cost,
     closets |-> calculateClosets(room.closetsStandard, room.closetsWalkIn).cost,
     windows |-> calculateWindows(room.windows).cost,
     accent_walls |-> calculateAccentWalls(room.accentWallsInRoom,
                                           room.accentWallsStandalone).cost,
     scaffolding |-> calculateScaffolding(room.needsScaffolding).cost,
     wallpaper_removal |-> calculateWallpaperRemoval(room.wallpaperRemovalSqft).cost]

\* C21: calculateRoom has a line item for a sub-calculation exactly when its
\* cost is positive, each tagged with the room's id and name, none zero or
\* negative, and roomTotal is the sum of the room's items; the job-level items
\* of calculateInteriorEstimate carry no room id.
C21_RoomLineItems ==
    result.returned =>
        /\ \A i \in 1..Len(input.rooms) :
              LET room == input.rooms[i]
                  res == result.value.rooms[i]
                  costs == SubCalculationCosts(room)
              IN  /\ \A c \in DOMAIN costs :
                        LET at == {k \in 1..Len(res.lineItems) :
                                      res.lineItems[k].category = c}
                        IN  /\ Cardinality(at) = (IF costs[c] > 0 THEN 1 ELSE 0)
                            /\ \A k \in at : res.lineItems[k].cost = costs[c]
                  /\ \A k \in 1..Len(res.lineItems) :
                        /\ res.lineItems[k].category \in DOMAIN costs
                        /\ res.lineItems[k].roomId = room.id
                        /\ res.lineItems[k].roomName = room.name
                        /\ res.lineItems[k].cost > 0
                  /\ res.roomTotal = SumCost(res.lineItems)
                  /\ res.roomId = room.id
        /\ \A k \in 1..Len(result.value.lineItems) :
              LET item == result.value.lineItems[k]
              IN  item.category \in {"additional_colors", "paint_options", "setup_fee"}
                     <=> item.roomId = Null

\* a room with painted walls, two closets and nothing else, in a job with a
\* setup-fee item: two room items and one job-level item
C21_Witness ==
    /\ result.returned
    /\ Len(input.rooms) = 1
    /\ input.rooms[1].floorSqft = Half(301)
    /\ input.rooms[1].closetsStandard = Whole(2)
    /\ Len(result.value.rooms[1].lineItems) = 2
    /\ result.value.rooms[1].roomTotal = Whole(421 + 240)
    /\ \E k \in 1..Len(result.value.lineItems) :
          result.value.lineItems[k].roomId = Null

\* the warnings list holds the given text about the given room
HasRoomWarning(warnings, text, room) ==
    \E i \in 1..Len(warnings) :
       /\ warnings[i].text = text
       /\ "roomName" \in DOMAIN warnings[i]
       /\ warnings[i].roomName = room.name

\* C22: calculateInteriorEstimate warns exactly about an empty room list, each
\* room whose area exceeds 5000 and each room whose door-side count exceeds
\* 20, and about nothing else; the warnings leave the numbers alone: the walls
\* and doors of a warned room, the subtotal, the setup fee and the total follow
\* the formulas of an unwarned job.
C22_Warnings ==
    result.returned =>
        LET r == result.value
            rooms == input.rooms
            large == {i \in 1..Len(rooms) : rooms[i].floorSqft > Whole(5000)}
            manyDoors == {i \in 1..Len(rooms) : rooms[i].doorSides > Whole(20)}
        IN  /\ Len(r.warnings)
                 = (IF rooms = <<>> THEN 1 ELSE 0)
                   + Cardinality(large) + Cardinality(manyDoors)
            /\ HasWarning(r.warnings, "No rooms added to estimate") <=> rooms = <<>>
            /\ \A i \in 1..Len(rooms) :
                  /\ HasRoomWarning(r.warnings, "Unusually large room", rooms[i])
                        <=> i \in large
                  /\ HasRoomWarning(r.warnings, "High door count", rooms[i])
                        <=> i \in manyDoors
            /\ \A i \in large :
                  rooms[i].paintWalls =>
                     \E k \in 1..Len(r.rooms[i].lineItems) :
                        /\ r.rooms[i].lineItems[k].category = "walls"
                        /\ r.rooms[i].lineItems[k].cost
                             = Nearest(Mul(rooms[i].floorSqft,
                                           (CASE rooms[i].roomType = "general" -> Dec(28, 10)
                                              [] rooms[i].roomType = "kitchen" -> Dec(31, 10)
                                              [] rooms[i].roomType = "bathroom" -> Dec(41, 10))
                                           + (IF rooms[i].vaulted THEN Dec(5, 10)
                                              ELSE Whole(0))))
            /\ \A i \in manyDoors :
                  \E k \in 1..Len(r.rooms[i].lineItems) :
                     /\ r.rooms[i].lineItems[k].category = "doors"
                     /\ r.rooms[i].lineItems[k].cost
                          = (rooms[i].doorSides \div SCALE) * Whole(63)
            /\ r.subtotal = SumCost(SelectSeq(r.lineItems, IsNotSetupFeeItem))
            /\ r.setupFee = ExpectedSetupFee(r.subtotal)
            /\ r.total = r.subtotal + r.setupFee

\* a room of 6000 sq.ft with 25 door sides: two warnings, 16800 + 1575
C22_Witness ==
    /\ result.returned
    /\ Len(input.rooms) = 1
    /\ input.rooms[1].floorSqft = Whole(6000)
    /\ input.rooms[1].doorSides = Whole(25)
    /\ Len(result.value.warnings) = 2
    /\ result.value.rooms[1].roomTotal = Whole(16800 + 1575)

(***************************************************************************)
(* calculateInteriorEstimate on jobs of up to MaxOrderRooms rooms, each    *)
(* with its area and closets drawn, to compare the orders of the rooms.    *)
(***************************************************************************)
MaxOrderRooms == 3

\* the n-th room, in one of six variants
OrderRooms(n) ==
    {[createRoom(n) EXCEPT !.floorSqft = a, !.closetsStandard = c] :
        a \in {Whole(0), Half(301), Whole(500)}, c \in {Whole(0), Whole(2)}}

OrderJobs ==
    UNION {{[createDefaultInteriorJob EXCEPT !.rooms = rooms,
                                             !.customerSuppliesPaint = paint] :
               rooms \in {rs \in [1..n -> UNION {OrderRooms(k) : k \in 1..n}] :
                             \A i \in 1..n : rs[i] \in OrderRooms(i)},
               paint \in BOOLEAN} :
           n \in 0..MaxOrderRooms}

InitRoomOrder ==
    /\ input \in OrderJobs
    /\ result = NoResult

CalculateInOrder ==
    /\ result = NoResult
    /\ result' = Returned(calculateInteriorEstimate(input))
    /\ UNCHANGED input

NextRoomOrder == CalculateInOrder

SpecRoomOrder == InitRoomOrder /\ [][NextRoomOrder]_vars

\* the orders of n things
Orders(n) == {p \in [1..n -> 1..n] : \A i, j \in 1..n : p[i] = p[j] => i = j}

\* C23: the order of the rooms does not matter to the price: for every order
\* of the rooms of a job, calculateInteriorEstimate returns the same subtotal,
\* setup fee, total and room count, and the same roomTotal for each room id.
C23_RoomOrder ==
    result.returned =>
        \A p \in Orders(Len(input.rooms)) :
           LET reordered == [input EXCEPT
                                !.rooms = [i \in 1..Len(input.rooms) |-> input.rooms[p[i]]]]
               other == calculateInteriorEstimate(reordered)
           IN  /\ other.subtotal = result.value.subtotal
               /\ other.setupFee = result.value.setupFee
               /\ other.total = result.value.total
               /\ other.roomCount = result.value.roomCount
               /\ \A i \in 1..Len(input.rooms) :
                     /\ other.rooms[i].roomId = result.value.rooms[p[i]].roomId
                     /\ other.rooms[i].roomTotal = result.value.rooms[p[i]].roomTotal

\* three rooms priced differently: 421, 1400 and 240 + 421
C23_Witness ==
    /\ result.returned
    /\ Len(input.rooms) = 3
    /\ result.value.rooms[1].roomTotal = Whole(421)
    /\ result.value.rooms[2].roomTotal = Whole(1400)
    /\ result.value.rooms[3].roomTotal = Whole(661)
    /\ result.value.subtotal = Whole(2482)

(***************************************************************************)
(* C24: the exterior line items against the breakdown.                     *)
(***************************************************************************)
ItemsOf(items, category) == SelectSeq(items, LAMBDA item : item.category = category)

\* at most one item of the category, present exactly when wanted, and then
\* with the given cost
PresentWhen(items, category, wanted, cost) ==
    LET found == ItemsOf(items, category)
    IN  IF wanted THEN found = <<Item(category, cost)>> ELSE found = <<>>

\* C24: in the exterior line-item list the two-coat item costs
\* afterCoatMultiplier - baseCalculation; the scope-adjustment item is present
\* exactly when scopeMultiplier < 1 and costs finalTotal - fullExteriorTotal,
\* which is never positive when the full total is not negative; the base-fee
\* item is always present and costs 1750; the difficulty and flaking items are
\* present exactly when their adjustment is positive; the add-on items are
\* present exactly when their cost is positive.
C24_ExteriorLineItems ==
    result.returned =>
        LET b == result.value.breakdown
            items == result.value.lineItems
        IN  /\ PresentWhen(items, "coats", TRUE, b.afterCoatMultiplier - b.baseCalculation)
            /\ PresentWhen(items, "scope", b.scopeMultiplier < Whole(1),
                           b.finalTotal - b.fullExteriorTotal)
            /\ (b.scopeMultiplier < Whole(1) /\ b.fullExteriorTotal >= 0
                    => b.finalTotal - b.fullExteriorTotal <= 0)
            /\ PresentWhen(items, "base", TRUE, Whole(1750))
            /\ ItemsOf(items, "difficulty") # <<>> <=> b.difficultyAdjustment > 0
            /\ ItemsOf(items, "flaking") # <<>> <=> b.flakingAdjustment > 0
            /\ PresentWhen(items, "shutters", b.shuttersCost > 0, b.shuttersCost)
            /\ PresentWhen(items, "front_door", b.frontDoorCost > 0, b.frontDoorCost)
            /\ PresentWhen(items, "garage", b.garageDoorsCost > 0, b.garageDoorsCost)

\* a 1001 sq.ft trim-only job with one shutter: 3001 after the base, 4802
\* after the coats, 4877 in full, 2926 for the trim
C24_Witness ==
    /\ result.returned
    /\ input.houseSqft = Whole(1001)
    /\ input.scope = "trim_only"
    /\ result.value.breakdown.fullExteriorTotal = Whole(4877)
    /\ ItemsOf(result.value.lineItems, "coats") = <<Item("coats", Whole(1801))>>
    /\ ItemsOf(result.value.lineItems, "scope") = <<Item("scope", Whole(-1951))>>
    /\ ItemsOf(result.value.lineItems, "shutters") = <<Item("shutters", Whole(75))>>
    /\ ItemsOf(result.value.lineItems, "difficulty") = <<>>

(***************************************************************************)
(* calculateJobTotal on its own: one call after another on the subtotals   *)
(* of the setup fee.                                                       *)
(***************************************************************************)
InitJobTotal ==
    /\ input \in Subtotals
    /\ result = NoResult

CalculateJobTotal ==
    /\ result = NoResult
    /\ result' = Returned(calculateJobTotal(input))
    /\ UNCHANGED input

RecalculateJobTotal ==
    /\ result.returned
    /\ \E subtotal \in Subtotals :
          /\ input' = subtotal
          /\ result' = Returned(calculateJobTotal(subtotal))

NextJobTotal == CalculateJobTotal \/ RecalculateJobTotal

SpecJobTotal == InitJobTotal /\ [][NextJobTotal]_vars

\* the job total as stated, for a subtotal that is not negative
StatedJobTotal(s) ==
    IF s >= Whole(1566) THEN s
    ELSE IF s >= Whole(1266) THEN Whole(1566)
    ELSE s + Whole(300)

\* C25: for every subtotal s >= 0, calculateJobTotal(s) is s + 300 when
\* s <= 1266, exactly 1566 when 1266 <= s < 1566 and s when s >= 1566; from one
\* call to the next it does not fall when s does not fall, and it is never
\* below 300.
C25_JobTotal ==
    [][(result'.returned /\ input' >= 0)
          => /\ result'.value = StatedJobTotal(input')
             /\ result'.value >= Whole(300)
             /\ (result.returned /\ input >= 0 /\ input <= input')
                    => result.value <= result'.value]_vars

(***************************************************************************)
(* The useEstimate hook (useEstimate.ts): input is the hook's state, the   *)
(* job and the number of ids crypto.randomUUID() has issued; result is the *)
(* last call made on the hook, with the id passed to duplicateRoom.  Each  *)
(* setter is one setJob update.                                            *)
(***************************************************************************)
MaxHookRooms == 3
MaxUuids == 3

\* crypto.randomUUID(): version-4 UUIDs, taken never to repeat; the n-th one
randomUUID(n) == <<"uuid", n>>

\* DEFAULT_ESTIMATE_STATE with the fields the hook and the engine use;
\* additionalColors is not part of it until setAdditionalColors adds it
DEFAULT_ESTIMATE_STATE ==
    [rooms |-> <<>>,
     numWallColors |-> Whole(1),
     customerSuppliesPaint |-> FALSE,
     premiumPaint |-> FALSE,
     additionalColors |-> Undefined]

\* createRoom(name) with the id crypto.randomUUID() returns
createRoomNamed(name, uuid) == [createRoom(1) EXCEPT !.id = uuid, !.name = name]

Call(name, roomId) == [call |-> name, roomId |-> roomId]

\* prev.rooms.findIndex((r) => r.id === roomId), 0 for -1
findIndex(rooms, roomId) ==
    IF \E i \in 1..Len(rooms) : rooms[i].id = roomId
    THEN CHOOSE i \in 1..Len(rooms) :
            /\ rooms[i].id = roomId
            /\ \A j \in 1..(i - 1) : rooms[j].id # roomId
    ELSE 0

\* newRooms.splice(index, 0, room) with index counted from 1: room becomes the
\* index-th element
splice(rooms, index, room) ==
    SubSeq(rooms, 1, index - 1) \o <<room>> \o SubSeq(rooms, index, Len(rooms))

addRoom(prev, name, uuid) ==
    LET roomNumber == Len(prev.rooms) + 1
        newRoom == createRoomNamed(IF name = Undefined THEN RoomNames[roomNumber]
                                   ELSE name[1], uuid)
    IN  [prev EXCEPT !.rooms = Append(prev.rooms, newRoom)]

updateRoom(prev, roomId, updatedRoom) ==
    [prev EXCEPT !.rooms = [i \in 1..Len(prev.rooms) |->
                               IF prev.rooms[i].id = roomId THEN updatedRoom
                               ELSE prev.rooms[i]]]

\* duplicateRoom with the copy pushed at the end of the list
duplicateRoom_CopyAtEnd(prev, roomId, uuid) ==
    LET roomIndex == findIndex(prev.rooms, roomId)
    IN  IF roomIndex = 0 THEN prev
        ELSE LET roomToDuplicate == prev.rooms[roomIndex]
                 newRoom == [roomToDuplicate EXCEPT
                                !.id = uuid,
                                !.name = roomToDuplicate.name \o " (copy)"]
             IN  [prev EXCEPT !.rooms = Append(prev.rooms, newRoom)]

duplicateRoom(prev, roomId, uuid) ==
    LET roomIndex == findIndex(prev.rooms, roomId)
    IN  IF roomIndex = 0 THEN prev
        ELSE LET roomToDuplicate == prev.rooms[roomIndex]
                 newRoom == [roomToDuplicate EXCEPT
                                !.id = uuid,
                                !.name = roomToDuplicate.name \o " (copy)"]
             IN  [prev EXCEPT !.rooms = splice(prev.rooms, roomIndex + 1, newRoom)]

removeRoom(prev, roomId) ==
    [prev EXCEPT !.rooms = SelectSeq(prev.rooms, LAMBDA room : room.id # roomId)]

renameRoom(prev, roomId, newName) ==
    [prev EXCEPT !.rooms = [i \in 1..Len(prev.rooms) |->
                               IF prev.rooms[i].id = roomId
                               THEN [prev.rooms[i] EXCEPT !.name = newName]
                               ELSE prev.rooms[i]]]

setAdditionalColors(prev, count) ==
    [prev EXCEPT !.additionalColors = Some(Max(Whole(0), count))]

\* the ids a caller may pass: every id issued so far and one never issued
HookRoomIds == {randomUUID(n) : n \in 0..MaxUuids}

\* the names a caller may pass to addRoom: none, or a name of the user's
HookNames == {Undefined, Some("Den")}

\* the room a RoomCard passes to updateRoom: the room with its area edited
HookRoomEdits(room) == {[room EXCEPT !.floorSqft = Whole(500)]}

InitEstimateHook ==
    /\ input = [job |-> DEFAULT_ESTIMATE_STATE, issued |-> 0]
    /\ result = Call("mount", randomUUID(0))

AddRoom ==
    /\ Len(input.job.rooms) < MaxHookRooms
    /\ input.issued < MaxUuids
    /\ \E name \in HookNames :
          input' = [job |-> addRoom(input.job, name, randomUUID(input.issued + 1)),
                    issued |-> input.issued + 1]
    /\ result' = Call("addRoom", randomUUID(0))

UpdateRoom ==
    \E i \in 1..Len(input.job.rooms) :
        \E updatedRoom \in HookRoomEdits(input.job.rooms[i]) :
            /\ input' = [input EXCEPT !.job = updateRoom(@, updatedRoom.id, updatedRoom)]
            /\ result' = Call("updateRoom", randomUUID(0))

\* the id is generated only when a room is found, as in the code
DuplicateRoom ==
    /\ Len(input.job.rooms) < MaxHookRooms
    /\ input.issued < MaxUuids
    /\ \E roomId \in HookRoomIds :
          /\ input' = [job |-> duplicateRoom(input.job, roomId,
                                             randomUUID(input.issued + 1)),
                       issued |-> IF findIndex(input.job.rooms, roomId) = 0
                                  THEN input.issued ELSE input.issued + 1]
          /\ result' = Call("duplicateRoom", roomId)

RemoveRoom ==
    \E roomId \in HookRoomIds :
        /\ input' = [input EXCEPT !.job = removeRoom(@, roomId)]
        /\ result' = Call("removeRoom", randomUUID(0))

RenameRoom ==
    \E roomId \in HookRoomIds :
        /\ input' = [input EXCEPT !.job = renameRoom(@, roomId, "Den")]
        /\ result' = Call("renameRoom", randomUUID(0))

SetAdditionalColors ==
    \E count \in {Whole(-1), Whole(2)} :
        /\ input' = [input EXCEPT !.job = setAdditionalColors(@, count)]
        /\ result' = Call("setAdditionalColors", randomUUID(0))

ResetEstimate ==
    /\ input' = [input EXCEPT !.job = DEFAULT_ESTIMATE_STATE]
    /\ result' = Call("reset", randomUUID(0))

NextEstimateHook ==
    \/ AddRoom
    \/ UpdateRoom
    \/ DuplicateRoom
    \/ RemoveRoom
    \/ RenameRoom
    \/ SetAdditionalColors
    \/ ResetEstimate

SpecEstimateHook == InitEstimateHook /\ [][NextEstimateHook]_vars

RoomIdsOf(rooms) == {rooms[i].id : i \in 1..Len(rooms)}

\* C26: duplicateRoom(id), when a room has that id, lengthens the rooms list
\* by one room placed right after the original, with an id no room had, the
\* original's name followed by " (copy)" and every other field of the original;
\* the other rooms keep their places and the rest of the job is unchanged.
\* When no room has that id the job is unchanged.
C26_DuplicateRoom ==
    [][result'.call = "duplicateRoom" =>
          LET old == input.job.rooms
              new == input'.job.rooms
              k == findIndex(old, result'.roomId)
          IN  IF result'.roomId \in RoomIdsOf(old)
              THEN /\ Len(new) = Len(old) + 1
                   /\ \A i \in 1..k : new[i] = old[i]
                   /\ \A i \in (k + 1)..Len(old) : new[i + 1] = old[i]
                   /\ new[k + 1].id \notin RoomIdsOf(old)
                   /\ new[k + 1].name = old[k].name \o " (copy)"
                   /\ [new[k + 1] EXCEPT !.id = old[k].id, !.name = old[k].name] = old[k]
                   /\ [input'.job EXCEPT !.rooms = old] = input.job
              ELSE input'.job = input.job]_vars

\* the first of two rooms duplicated: the copy stands between them
C26_Witness ==
    /\ result.call = "duplicateRoom"
    /\ Len(input.job.rooms) = 3
    /\ input.job.rooms[1].name = "Room 1"
    /\ input.job.rooms[2].name = "Room 1 (copy)"
    /\ input.job.rooms[2].id = randomUUID(3)
    /\ input.job.rooms[2].floorSqft = Whole(500)
    /\ input.job.rooms[3].name = "Room 2"

(***************************************************************************)
(* The useLocalStorage hook (useEstimate.ts, lines 335-442).  result is    *)
(* the hook instance and the browser it runs in: the clock, the table of   *)
(* pending timers and the localStorage item under the hook's key.  input   *)
(* is what the callers have done: whether the component is mounted, the    *)
(* last call, the last saveDraft call and what became of it.  Time is in   *)
(* milliseconds.  localStorage is taken to accept every write; the catch   *)
(* branches only log.                                                      *)
(***************************************************************************)
DEBOUNCE_MS == 500
TickMs == 250
MaxTime == 1500
MaxTimers == 3

\* the data a caller passes to saveDraft and saveNow
DraftData == {"draft-1", "draft-2"}

\* a fresh hook instance in a browser at time 0 with nothing stored
NewStorageHook ==
    [timeoutRef |-> Undefined,
     lastSaved |-> Undefined,
     now |-> 0,
     issued |-> 0,
     timers |-> {},
     storage |-> Undefined]

\* if (timeoutRef.current) clearTimeout(timeoutRef.current): the timer with
\* that id, if it is still pending, leaves the table
clearTimeout(w) ==
    IF w.timeoutRef = Undefined THEN w.timers
    ELSE {t \in w.timers : t.id # w.timeoutRef[1]}

\* localStorage.setItem(key, JSON.stringify({data, savedAt: Date.now()}))
\* followed by setLastSaved(draft.savedAt)
writeDraft(w, data) ==
    [w EXCEPT !.storage = Some([data |-> data, savedAt |-> w.now]),
              !.lastSaved = Some(w.now)]

\* saveDraft without the clearTimeout of the previous timer
saveDraft_KeepsOldTimer(w, data) ==
    LET id == w.issued + 1
    IN  [w EXCEPT !.timers = w.timers \cup {[id |-> id, due |-> w.now + DEBOUNCE_MS, data |-> data]},
                  !.timeoutRef = Some(id),
                  !.issued = id]

\* saveDraft(data): setTimeout returns the next timer id
saveDraft(w, data) ==
    LET id == w.issued + 1
    IN  [w EXCEPT !.timers = clearTimeout(w)
                                 \cup {[id |-> id, due |-> w.now + DEBOUNCE_MS, data |-> data]},
                  !.timeoutRef = Some(id),
                  !.issued = id]

saveNow(w, data) == writeDraft([w EXCEPT !.timers = clearTimeout(w)], data)

\* clearDraft(): localStorage.removeItem(key) and setLastSaved(null)
clearDraft(w) ==
    [w EXCEPT !.timers = clearTimeout(w), !.storage = Undefined, !.lastSaved = Undefined]

\* the cleanup of the effect, run on unmount
cleanupTimeout(w) == [w EXCEPT !.timers = clearTimeout(w)]

\* the callback passed to setTimeout, run for timer t
timeoutCallback(w, t) == writeDraft([w EXCEPT !.timers = w.timers \ {t}], t.data)

\* a new instance of the hook in the same browser: useRef(null), useState(null)
remount(w) == [w EXCEPT !.timeoutRef = Undefined, !.lastSaved = Undefined]

\* the clock moves on by one tick, or to the next timer if that is earlier
advanceClock(w) ==
    LET next == w.now + TickMs
        dues == {t.due : t \in w.timers}
    IN  [w EXCEPT !.now = IF \E d \in dues : d < next
                          THEN CHOOSE d \in dues : \A e \in dues : d <= e
                          ELSE next]

Callers(mounted, call, lastCall, burst) ==
    [mounted |-> mounted, call |-> call, lastCall |-> lastCall, burst |-> burst]

\* what a cancelling call makes of the last saveDraft
Cancelled(burst) == IF burst = "waiting" THEN "cancelled" ELSE burst

InitLocalStorage ==
    /\ input = Callers(TRUE, "mount", Undefined, "none")
    /\ result = NewStorageHook

SaveDraft ==
    /\ input.mounted
    /\ result.issued < MaxTimers
    /\ result.now + DEBOUNCE_MS <= MaxTime
    /\ \E data \in DraftData :
          /\ result' = saveDraft(result, data)
          /\ input' = Callers(TRUE, "saveDraft",
                              Some([at |-> result.now, data |-> data]), "waiting")

SaveNow ==
    /\ input.mounted
    /\ \E data \in DraftData : result' = saveNow(result, data)
    /\ input' = [input EXCEPT !.call = "saveNow", !.burst = Cancelled(@)]

ClearDraft ==
    /\ input.mounted
    /\ result' = clearDraft(result)
    /\ input' = [input EXCEPT !.call = "clearDraft", !.burst = Cancelled(@)]

Unmount ==
    /\ input.mounted
    /\ result' = cleanupTimeout(result)
    /\ input' = [input EXCEPT !.mounted = FALSE, !.call = "unmount", !.burst = Cancelled(@)]

Mount ==
    /\ ~input.mounted
    /\ result' = remount(result)
    /\ input' = [input EXCEPT !.mounted = TRUE, !.call = "mount"]

\* a timer that is due runs its callback
TimeoutFires ==
    /\ \E t \in result.timers :
          /\ t.due <= result.now
          /\ result' = timeoutCallback(result, t)
    /\ input' = [input EXCEPT !.call = "timeout", !.burst = "written"]

\* time passes; a due timer runs before the clock moves past it
AdvanceClock ==
    /\ result.now < MaxTime
    /\ \A t \in result.timers : result.now < t.due
    /\ result' = advanceClock(result)
    /\ input' = [input EXCEPT !.call = "wait"]

NextLocalStorage ==
    \/ SaveDraft
    \/ SaveNow
    \/ ClearDraft
    \/ Unmount
    \/ Mount
    \/ TimeoutFires
    \/ AdvanceClock

SpecLocalStorage == InitLocalStorage /\ [][NextLocalStorage]_vars

\* the event loop runs a due timer and time does not stop
FairLocalStorage ==
    SpecLocalStorage /\ WF_vars(TimeoutFires) /\ WF_vars(AdvanceClock)

\* the one timer the last saveDraft call should have left
DebouncedTimer(t) ==
    /\ t.due = input.lastCall[1].at + DEBOUNCE_MS
    /\ t.data = input.lastCall[1].data

\* C27: draft saving is debounced.  At most one timer is pending, and one is
\* pending exactly while the last saveDraft call is neither written nor
\* cancelled; it is due debounceMs after that call and carries its data.  A
\* write by a timer happens at that time with that data, once.  clearDraft,
\* saveNow and unmount leave no timer pending, clearDraft leaves no draft, and
\* a removed draft comes back only through saveNow or a saveDraft that is still
\* waiting.  A waiting saveDraft is in the end written or cancelled.
C27_Debounced ==
    /\ [](Cardinality(result.timers) <= 1)
    /\ []((input.burst = "waiting") <=> (result.timers # {}))
    /\ [](\A t \in result.timers : DebouncedTimer(t))
    /\ [][/\ input'.call = "timeout" =>
                /\ input.burst = "waiting"
                /\ result.now = input.lastCall[1].at + DEBOUNCE_MS
                /\ result'.storage = Some([data |-> input.lastCall[1].data,
                                           savedAt |-> result.now])
                /\ result'.timers = {}
          /\ input'.call \in {"clearDraft", "saveNow", "unmount"} => result'.timers = {}
          /\ input'.call = "clearDraft" => result'.storage = Undefined
          /\ (result.storage = Undefined /\ result'.storage # Undefined) =>
                \/ input'.call = "saveNow"
                \/ input'.call = "timeout" /\ input.burst = "waiting"]_vars
    /\ (input.burst = "waiting") ~> (input.burst \in {"written", "cancelled"})

\* two saveDraft calls 250 ms apart: one write, 500 ms after the second call,
\* with the data of the second
C27_Witness ==
    /\ input.call = "timeout"
    /\ input.lastCall = Some([at |-> 250, data |-> "draft-2"])
    /\ result.issued = 2
    /\ result.now = 750
    /\ result.storage = Some([data |-> "draft-2", savedAt |-> 750])
    /\ result.timers = {}

(***************************************************************************)
(* The useExteriorEstimate hook (useEstimate.ts, lines 188-333) on top of  *)
(* useLocalStorage.  result is the storage hook and the browser, as above, *)
(* with the job as the data of a draft.  input is the component: whether   *)
(* it is mounted, its job and hasPendingDraft, the number of ids issued by *)
(* crypto.randomUUID(), and the history of the calls: the last call and    *)
(* its time, whether it was a setter, the number of setter calls since the *)
(* job was last the default job, what was in storage at mount, whether     *)
(* loadFromDraft or dismissDraft has been called since, and whether the    *)
(* job was loaded from a draft.  A handler and the effect that runs after  *)
(* the render it causes are one step.                                      *)
(***************************************************************************)
MaxHookEdits == 2
MaxHookTimers == 3
MaxHookUuids == 3

JobKeys == DOMAIN createDefaultExteriorJob \cup {"id", "notes"}

\* createDefaultExteriorJob() with the id and the notes the engine does not read
createDefaultExteriorJobWithId(uuid) ==
    [k \in JobKeys |-> IF k = "id" THEN uuid
                       ELSE IF k = "notes" THEN ""
                       ELSE createDefaultExteriorJob[k]]

\* JSON.stringify(job): a property whose value is undefined is left out
JSONStringify(job) ==
    IF job.heavyFlakingAdjustment = Undefined
    THEN [k \in JobKeys \ {"heavyFlakingAdjustment"} |-> job[k]]
    ELSE job

\* the job JSON.parse returns, as property reads see it: a missing property
\* reads as undefined
JSONParse(text) ==
    [k \in JobKeys |-> IF k \in DOMAIN text THEN text[k] ELSE Undefined]

\* loadDraft(): the stored draft parsed, or null
loadDraft(w) ==
    IF w.storage = Undefined THEN Undefined
    ELSE Some([data |-> JSONParse(JSONStringify(w.storage[1].data)),
               savedAt |-> w.storage[1].savedAt])

checkForExistingDraft(w) ==
    LET draft == loadDraft(w)
    IN  IF draft = Undefined THEN FALSE
        ELSE draft[1].data.houseSqft > 0 \/ draft[1].data.shutterCount > 0

\* the auto-save effect
autoSave(w, job, hasPendingDraft) ==
    IF ~hasPendingDraft THEN saveDraft(w, job) ELSE w

setHouseSqft(prev, sqft) == [prev EXCEPT !.houseSqft = Max(Whole(0), sqft)]

setStoryType(prev, storyType) == [prev EXCEPT !.storyType = storyType]

updateSideDifficulty(prev, side, nonFlatGround) ==
    [prev EXCEPT !.sideDifficulties =
        [i \in 1..Len(@) |-> IF @[i].side = side
                             THEN [@[i] EXCEPT !.nonFlatGround = nonFlatGround]
                             ELSE @[i]]]

setFlakingSeverity(prev, severity) ==
    [prev EXCEPT !.flakingSeverity = severity,
                 !.heavyFlakingAdjustment =
                     IF severity = "heavy"
                     THEN (IF @ = Undefined THEN Some(Dec(5, 10)) ELSE @)
                     ELSE Undefined]

setHeavyFlakingAdjustment(prev, adjustment) ==
    [prev EXCEPT !.heavyFlakingAdjustment =
                     Some(Min(Whole(1), Max(Dec(5, 10), adjustment)))]

setScope(prev, scope) == [prev EXCEPT !.scope = scope]

setShutterCount(prev, count) == [prev EXCEPT !.shutterCount = Max(Whole(0), count)]

setPaintFrontDoor(prev, paint) == [prev EXCEPT !.paintFrontDoor = paint]

setGarageDoors(prev, doors) ==
    [prev EXCEPT !.garageDoors = [oneCarDoors |-> Max(Whole(0), doors.oneCarDoors),
                                  twoCarDoors |-> Max(Whole(0), doors.twoCarDoors)]]

setNotes(prev, notes) == [prev EXCEPT !.notes = notes]

\* a timer can still be set and fire within the horizon
CanSchedule ==
    /\ result.issued < MaxHookTimers
    /\ result.now + DEBOUNCE_MS <= MaxTime

InitExteriorHook ==
    /\ input = [mounted |-> TRUE,
                job |-> createDefaultExteriorJobWithId(randomUUID(1)),
                hasPendingDraft |-> FALSE,
                uuids |-> 1,
                call |-> "mount",
                at |-> 0,
                setter |-> FALSE,
                edits |-> 0,
                found |-> Undefined,
                decided |-> FALSE,
                fromDraft |-> FALSE]
    /\ result = saveDraft(NewStorageHook, createDefaultExteriorJobWithId(randomUUID(1)))

\* a setter called with the job it makes of the current one, and the effect
Setter(name, job) ==
    /\ input.mounted
    /\ input.edits < MaxHookEdits
    /\ CanSchedule
    /\ input' = [input EXCEPT !.job = job, !.call = name, !.at = result.now,
                              !.setter = TRUE, !.edits = @ + 1]
    /\ result' = autoSave(result, job, input.hasPendingDraft)

SetHouseSqft ==
    \E sqft \in {Whole(-1), Whole(2000)} :
        Setter("setHouseSqft", setHouseSqft(input.job, sqft))

SetStoryType == Setter("setStoryType", setStoryType(input.job, "two_story"))

UpdateSideDifficulty ==
    Setter("updateSideDifficulty", updateSideDifficulty(input.job, "front", TRUE))

SetFlakingSeverity ==
    \E severity \in {"light", "heavy"} :
        Setter("setFlakingSeverity", setFlakingSeverity(input.job, severity))

SetHeavyFlakingAdjustment ==
    \E adjustment \in {Dec(3, 10), Dec(15, 10)} :
        Setter("setHeavyFlakingAdjustment",
               setHeavyFlakingAdjustment(input.job, adjustment))

SetScope == Setter("setScope", setScope(input.job, "trim_only"))

SetShutterCount ==
    \E count \in {Whole(-1), Whole(2)} :
        Setter("setShutterCount", setShutterCount(input.job, count))

SetPaintFrontDoor == Setter("setPaintFrontDoor", setPaintFrontDoor(input.job, TRUE))

SetGarageDoors ==
    Setter("setGarageDoors",
           setGarageDoors(input.job, [oneCarDoors |-> Whole(-1), twoCarDoors |-> Whole(2)]))

SetNotes == Setter("setNotes", setNotes(input.job, "note"))

ResetExterior ==
    /\ input.mounted
    /\ input.uuids < MaxHookUuids
    /\ CanSchedule
    /\ LET job == createDefaultExteriorJobWithId(randomUUID(input.uuids + 1))
       IN  /\ input' = [input EXCEPT !.job = job, !.uuids = @ + 1, !.call = "reset",
                                     !.at = result.now, !.setter = FALSE, !.edits = 0,
                                     !.fromDraft = FALSE]
           /\ result' = autoSave(clearDraft(result), job, input.hasPendingDraft)

\* the effect runs when the job or hasPendingDraft has changed
LoadFromDraft ==
    /\ input.mounted
    /\ CanSchedule
    /\ LET draft == loadDraft(result)
           job == IF draft = Undefined THEN input.job ELSE draft[1].data
       IN  /\ input' = [input EXCEPT !.job = job, !.hasPendingDraft = FALSE,
                                     !.call = "loadFromDraft", !.at = result.now,
                                     !.setter = FALSE, !.decided = TRUE,
                                     !.fromDraft = @ \/ draft # Undefined]
           /\ result' = IF draft # Undefined \/ input.hasPendingDraft
                        THEN autoSave(result, job, FALSE)
                        ELSE result

DismissDraft ==
    /\ input.mounted
    /\ CanSchedule
    /\ input' = [input EXCEPT !.hasPendingDraft = FALSE, !.call = "dismissDraft",
                              !.at = result.now, !.setter = FALSE, !.decided = TRUE]
    /\ result' = IF input.hasPendingDraft
                 THEN autoSave(clearDraft(result), input.job, FALSE)
                 ELSE clearDraft(result)

UnmountExterior ==
    /\ input.mounted
    /\ input' = [input EXCEPT !.mounted = FALSE, !.call = "unmount", !.at = result.now,
                              !.setter = FALSE]
    /\ result' = cleanupTimeout(result)

\* the page is loaded again: a new component over the same localStorage
MountExterior ==
    /\ ~input.mounted
    /\ input.uuids < MaxHookUuids
    /\ CanSchedule
    /\ LET job == createDefaultExteriorJobWithId(randomUUID(input.uuids + 1))
           hasPendingDraft == checkForExistingDraft(result)
       IN  /\ input' = [mounted |-> TRUE,
                        job |-> job,
                        hasPendingDraft |-> hasPendingDraft,
                        uuids |-> input.uuids + 1,
                        call |-> "mount",
                        at |-> result.now,
                        setter |-> FALSE,
                        edits |-> 0,
                        found |-> result.storage,
                        decided |-> FALSE,
                        fromDraft |-> FALSE]
           /\ result' = autoSave(remount(result), job, hasPendingDraft)

ExteriorTimeoutFires ==
    /\ \E t \in result.timers :
          /\ t.due <= result.now
          /\ result' = timeoutCallback(result, t)
    /\ input' = [input EXCEPT !.call = "timeout"]

ExteriorWait ==
    /\ result.now < MaxTime
    /\ \A t \in result.timers : result.now < t.due
    /\ result' = advanceClock(result)
    /\ input' = [input EXCEPT !.call = "wait"]

NextExteriorHook ==
    \/ SetHouseSqft
    \/ SetStoryType
    \/ UpdateSideDifficulty
    \/ SetFlakingSeverity
    \/ SetHeavyFlakingAdjustment
    \/ SetScope
    \/ SetShutterCount
    \/ SetPaintFrontDoor
    \/ SetGarageDoors
    \/ SetNotes
    \/ ResetExterior
    \/ LoadFromDraft
    \/ DismissDraft
    \/ UnmountExterior
    \/ MountExterior
    \/ ExteriorTimeoutFires
    \/ ExteriorWait

SpecExteriorHook == InitExteriorHook /\ [][NextExteriorHook]_vars

\* the job differs from a default job in more than its id
DiffersFromDefault(job) == job # createDefaultExteriorJobWithId(job.id)

\* C28: once the job has been edited through the setters so that it differs
\* from the default job and the debounce delay has passed with no further
\* call, the job is the draft in storage; when the hook is mounted over a
\* stored draft whose job differs from the default job, hasPendingDraft is
\* true; and loadFromDraft makes the stored job the job.
C28_DraftRecovered ==
    /\ []((/\ input.mounted
           /\ input.setter
           /\ DiffersFromDefault(input.job)
           /\ result.now >= input.at + DEBOUNCE_MS
           /\ \A t \in result.timers : result.now < t.due)
             => /\ result.storage # Undefined
                /\ result.storage[1].data = input.job)
    /\ [][/\ (/\ input'.call = "mount"
              /\ ~input.mounted
              /\ result.storage # Undefined
              /\ DiffersFromDefault(result.storage[1].data))
                => input'.hasPendingDraft
          /\ (input'.call = "loadFromDraft" /\ result.storage # Undefined)
                => input'.job = result.storage[1].data]_vars

\* C29: from mount until loadFromDraft or dismissDraft is called, no step
\* changes what is in storage, when the draft found there at mount has a job
\* that differs from the default job.
C29_DraftKept ==
    [][(/\ input.mounted
        /\ ~input.decided
        /\ input.found # Undefined
        /\ DiffersFromDefault(input.found[1].data)
        /\ input'.call \notin {"loadFromDraft", "dismissDraft"})
          => result'.storage = result.storage]_vars

\* C30: while the job comes from the default job by setter calls and resets
\* only, houseSqft, shutterCount and both garage-door counts are not negative,
\* heavyFlakingAdjustment, when defined, lies in [0.5, 1.0], and it is
\* undefined whenever flakingSeverity is not heavy.
C30_SettersClamp ==
    (input.mounted /\ ~input.fromDraft) =>
        LET job == input.job
        IN  /\ job.houseSqft >= 0
            /\ job.shutterCount >= 0
            /\ job.garageDoors.oneCarDoors >= 0
            /\ job.garageDoors.twoCarDoors >= 0
            /\ job.heavyFlakingAdjustment # Undefined =>
                  /\ job.heavyFlakingAdjustment[1] >= Dec(5, 10)
                  /\ job.heavyFlakingAdjustment[1] <= Whole(1)
            /\ job.flakingSeverity # "heavy" => job.heavyFlakingAdjustment = Undefined
====
